---- MODULE Spec2Model ----
(***************************************************************************)
(* Model of the pattern matcher (package matcher), the guide resolver      *)
(* (package resolver), the diff parser and Git client (package git), the   *)
(* configuration parser (package config) and the file filter of the diff   *)
(* command of miso.                                                        *)
(*                                                                         *)
(* Strings are sequences of one-character strings, so Go's "" is << >>.    *)
(* A regular expression is modelled by its source text: the patterns used  *)
(* are literals, which regexp finds anywhere in the subject (unanchored    *)
(* search), and a pattern containing "(" does not compile (missing         *)
(* closing parenthesis).  A compiled *regexp.Regexp is represented by the  *)
(* source it was compiled from.                                            *)
(***************************************************************************)
EXTENDS Integers, Sequences, FiniteSets, TLC

VARIABLES
    config,           \* Matcher.config / Resolver.config: the loaded *config.Config
    compiledRegexes,  \* Matcher.compiledRegexes of the Resolver's Matcher
    repo,             \* GitClient.repo: the patch between the base and the head commit
    call              \* the last completed call: its inputs, its result, the cache it started from

vars == <<config, compiledRegexes, repo, call>>

-----------------------------------------------------------------------------
(* Bounds of the model *)

MaxRules == 2          \* rules in a rule set
MaxDiffLines == 3      \* lines of a diff text
MaxHunkLines == 4      \* lines after the header of a hunk
MaxFiles == 2          \* files changed between two commits
MaxSampleLen == 3      \* bytes of a file whose content is sampled

-----------------------------------------------------------------------------
(* Strings, lines and regular expressions *)

NL == "\n"

Range(s) == {s[i] : i \in 1..Len(s)}

Min(a, b) == IF a < b THEN a ELSE b

\* strings.Split(s, "\n"): the pieces between newlines, always at least one
RECURSIVE SplitFrom(_, _, _)
SplitFrom(s, i, cur) ==
    IF i > Len(s) THEN <<cur>>
    ELSE IF s[i] = NL THEN <<cur>> \o SplitFrom(s, i + 1, <<>>)
    ELSE SplitFrom(s, i + 1, Append(cur, s[i]))

SplitLines(s) == SplitFrom(s, 1, <<>>)

\* strings.Join(lines, "\n"); the join of no line is ""
RECURSIVE JoinLines(_)
JoinLines(ls) ==
    IF Len(ls) = 0 THEN <<>>
    ELSE IF Len(ls) = 1 THEN ls[1]
    ELSE ls[1] \o <<NL>> \o JoinLines(Tail(ls))

\* regexp.Compile(pattern) succeeds
Compiles(pattern) == "(" \notin Range(pattern)

\* regex.MatchString(subject) / regex.Match(subject): unanchored search
RegexMatch(regex, subject) ==
    \E i \in 0..(Len(subject) - Len(regex)) :
        SubSeq(subject, i + 1, i + Len(regex)) = regex

-----------------------------------------------------------------------------
(* Errors *)

NoErr == [kind |-> "none", rule |-> "", pattern |-> ""]
\* fmt.Errorf("invalid filename regex for pattern %s: %w", ...) and its content twin
CompileErr(name, which) == [kind |-> "compile", rule |-> name, pattern |-> which]
\* the error of os.ReadFile
ReadErr == [kind |-> "read", rule |-> "", pattern |-> ""]
\* a run-time panic (slice bounds / index out of range)
Panic == [kind |-> "panic", rule |-> "", pattern |-> ""]
\* fmt.Errorf("failed to parse hunk header: %w", err)
ParseErr == [kind |-> "parse", rule |-> "", pattern |-> ""]
\* the errors of GetFileDiff: a reference that does not resolve, no diff for the file
RefErr == [kind |-> "ref", rule |-> "", pattern |-> ""]
NoDiffErr == [kind |-> "nodiff", rule |-> "", pattern |-> ""]
\* the errors of the Parser: file not found, YAML that does not parse, and
\* fmt.Errorf("invalid configuration: %w", err) with the rule and the check
NotFoundErr == [kind |-> "notfound", rule |-> "", pattern |-> ""]
YamlErr == [kind |-> "yaml", rule |-> "", pattern |-> ""]
InvalidErr(name, which) == [kind |-> "invalid", rule |-> name, pattern |-> which]

-----------------------------------------------------------------------------
(* Matcher *)

\* the map key Name+"_filename" / Name+"_content"
Key(name, which) == <<name, which>>

\* NewMatcher: the configuration and an empty regex cache of its own
NewMatcher(cfg) == [config |-> cfg, compiledRegexes |-> <<>>]

\* getRegex that compiles on every call and overwrites the cached entry
getRegexRecompiling(cache, key, pattern) ==
    IF ~Compiles(pattern)
    THEN [regex |-> <<>>, ok |-> FALSE, cache |-> cache]
    ELSE [regex |-> pattern, ok |-> TRUE,
          cache |-> [k \in DOMAIN cache \cup {key} |->
                        IF k = key THEN pattern ELSE cache[k]]]

\* Matcher.getRegex: the cached regex of the key if there is one, else the
\* compiled pattern, which is cached; a failed compilation caches nothing
getRegex(cache, key, pattern) ==
    IF key \in DOMAIN cache
    THEN [regex |-> cache[key], ok |-> TRUE, cache |-> cache]
    ELSE IF ~Compiles(pattern)
    THEN [regex |-> <<>>, ok |-> FALSE, cache |-> cache]
    ELSE [regex |-> pattern, ok |-> TRUE,
          cache |-> [k \in DOMAIN cache \cup {key} |->
                        IF k = key THEN pattern ELSE cache[k]]]

\* the loop of Matcher.MatchFile from rule i on
RECURSIVE MatchFileFrom(_, _, _, _, _)
MatchFileFrom(cfg, cache, filename, i, matched) ==
    IF i > Len(cfg.Patterns)
    THEN [res |-> matched, err |-> NoErr, cache |-> cache]
    ELSE LET pattern == cfg.Patterns[i] IN
         IF pattern.Filename = <<>>
         THEN MatchFileFrom(cfg, cache, filename, i + 1, matched)
         ELSE LET g == getRegex(cache, Key(pattern.Name, "filename"), pattern.Filename) IN
              IF ~g.ok
              THEN [res |-> <<>>, err |-> CompileErr(pattern.Name, "filename"),
                    cache |-> g.cache]
              ELSE IF RegexMatch(g.regex, filename)
              THEN IF pattern.Stop
                   THEN [res |-> Append(matched, pattern), err |-> NoErr,
                         cache |-> g.cache]
                   ELSE MatchFileFrom(cfg, g.cache, filename, i + 1,
                                      Append(matched, pattern))
              ELSE MatchFileFrom(cfg, g.cache, filename, i + 1, matched)

\* Matcher.MatchFile
MatchFile(cfg, cache, filename) == MatchFileFrom(cfg, cache, filename, 1, <<>>)

\* the default smart counts (first, last and random are all set to it)
SmartDefault == 100

\* SmartSamples whose tail block always starts at totalLines - lastLines,
\* overlapping the first block on a short content
SmartSamplesUnclamped(lines, firstLines, lastLines, randomLines) ==
    LET totalLines == Len(lines)
        firstBlock == IF firstLines > 0
                      THEN SubSeq(lines, 1, Min(firstLines, totalLines))
                      ELSE <<>>
        startLast == IF totalLines - lastLines < 0
                     THEN 0
                     ELSE totalLines - lastLines
        tailBlock == IF startLast < totalLines
                     THEN SubSeq(lines, startLast + 1, totalLines)
                     ELSE <<>>
        middleStart == firstLines
        middleEnd == totalLines - lastLines
        draws == IF totalLines > firstLines + lastLines
                    /\ randomLines > 0 /\ middleStart < middleEnd
                 THEN [1..randomLines -> middleStart..(middleEnd - 1)]
                 ELSE {<<>>}
    IN  {[panic |-> FALSE,
          bytes |-> JoinLines(firstBlock \o tailBlock
                              \o [k \in 1..Len(d) |-> lines[d[k] + 1]])]
         : d \in draws}

\* the samples of the "smart" strategy: first block, tail block clamped to
\* start no earlier than the first block's end, then random middle lines
\* (rand.Intn: any index of the middle may be drawn, each draw independent).
\* lines[i] with i outside 0..totalLines-1 panics.
SmartSamples(lines, firstLines, lastLines, randomLines) ==
    LET totalLines == Len(lines)
        firstBlock == IF firstLines > 0
                      THEN SubSeq(lines, 1, Min(firstLines, totalLines))
                      ELSE <<>>
        startLast == IF totalLines - lastLines < firstLines
                     THEN firstLines
                     ELSE totalLines - lastLines
        tailPanics == startLast < totalLines /\ startLast < 0
        tailBlock == IF startLast < totalLines
                     THEN SubSeq(lines, startLast + 1, totalLines)
                     ELSE <<>>
        middleStart == firstLines
        middleEnd == totalLines - lastLines
        draws == IF totalLines > firstLines + lastLines
                    /\ randomLines > 0 /\ middleStart < middleEnd
                 THEN [1..randomLines -> middleStart..(middleEnd - 1)]
                 ELSE {<<>>}
    IN  IF tailPanics
        THEN {[panic |-> TRUE, bytes |-> <<>>]}
        ELSE {IF \E k \in 1..Len(d) : d[k] < 0 \/ d[k] >= totalLines
              THEN [panic |-> TRUE, bytes |-> <<>>]
              ELSE [panic |-> FALSE,
                    bytes |-> JoinLines(firstBlock \o tailBlock
                                        \o [k \in 1..Len(d) |-> lines[d[k] + 1]])]
              : d \in draws}

\* getContentToScan whose first_lines sample takes one line more
getContentToScanOneMore(cfg, content, pattern) ==
    LET strategy == IF pattern.ContentStrategy = ""
                    THEN cfg.ContentDefaults.Strategy
                    ELSE pattern.ContentStrategy
        lines == SplitLines(content)
        totalLines == Len(lines)
    IN  IF strategy = "full_file"
        THEN {[panic |-> FALSE, bytes |-> content]}
        ELSE IF strategy = "smart"
        THEN IF Len(pattern.ContentLines) = 3
             THEN SmartSamples(lines, pattern.ContentLines[1],
                               pattern.ContentLines[2], pattern.ContentLines[3])
             ELSE SmartSamples(lines, SmartDefault, SmartDefault, SmartDefault)
        ELSE LET linesToScan ==
                     IF pattern.ContentStrategy = "first_lines"
                        /\ Len(pattern.ContentLines) > 0
                     THEN pattern.ContentLines[1]
                     ELSE cfg.ContentDefaults.Lines
             IN  IF linesToScan + 1 > totalLines
                 THEN {[panic |-> FALSE, bytes |-> content]}
                 ELSE IF linesToScan + 1 < 0
                 THEN {[panic |-> TRUE, bytes |-> <<>>]}
                 ELSE {[panic |-> FALSE,
                        bytes |-> JoinLines(SubSeq(lines, 1, linesToScan + 1))]}

\* getContentToScan that always takes the strategy of the defaults
getContentToScanDefaultStrategy(cfg, content, pattern) ==
    LET strategy == cfg.ContentDefaults.Strategy
        lines == SplitLines(content)
        totalLines == Len(lines)
    IN  IF strategy = "full_file"
        THEN {[panic |-> FALSE, bytes |-> content]}
        ELSE IF strategy = "smart"
        THEN IF Len(pattern.ContentLines) = 3
             THEN SmartSamples(lines, pattern.ContentLines[1],
                               pattern.ContentLines[2], pattern.ContentLines[3])
             ELSE SmartSamples(lines, SmartDefault, SmartDefault, SmartDefault)
        ELSE LET linesToScan ==
                     IF pattern.ContentStrategy = "first_lines"
                        /\ Len(pattern.ContentLines) > 0
                     THEN pattern.ContentLines[1]
                     ELSE cfg.ContentDefaults.Lines
             IN  IF linesToScan > totalLines
                 THEN {[panic |-> FALSE, bytes |-> content]}
                 ELSE IF linesToScan < 0
                 THEN {[panic |-> TRUE, bytes |-> <<>>]}
                 ELSE {[panic |-> FALSE,
                        bytes |-> JoinLines(SubSeq(lines, 1, linesToScan))]}

\* Matcher.getContentToScan: the set of samples the call can return (one,
\* unless random lines are drawn), a sample being the bytes or a panic
getContentToScan(cfg, content, pattern) ==
    LET strategy == IF pattern.ContentStrategy = ""
                    THEN cfg.ContentDefaults.Strategy
                    ELSE pattern.ContentStrategy
        lines == SplitLines(content)
        totalLines == Len(lines)
    IN  IF strategy = "full_file"
        THEN {[panic |-> FALSE, bytes |-> content]}
        ELSE IF strategy = "smart"
        THEN IF Len(pattern.ContentLines) = 3
             THEN SmartSamples(lines, pattern.ContentLines[1],
                               pattern.ContentLines[2], pattern.ContentLines[3])
             ELSE SmartSamples(lines, SmartDefault, SmartDefault, SmartDefault)
        ELSE \* default: "first_lines"
             LET linesToScan ==
                     IF pattern.ContentStrategy = "first_lines"
                        /\ Len(pattern.ContentLines) > 0
                     THEN pattern.ContentLines[1]
                     ELSE cfg.ContentDefaults.Lines
             IN  IF linesToScan > totalLines
                 THEN {[panic |-> FALSE, bytes |-> content]}
                 ELSE IF linesToScan < 0
                 THEN {[panic |-> TRUE, bytes |-> <<>>]}
                 ELSE {[panic |-> FALSE,
                        bytes |-> JoinLines(SubSeq(lines, 1, linesToScan))]}

\* filenameMatchMap of MatchFileContent: the names of the filename matches
FilenameMatchMap(filenameMatches) == {p.Name : p \in Range(filenameMatches)}

\* the second loop of Matcher.MatchFileContent from rule i on: the set of
\* outcomes (several only when a smart sample draws random lines)
RECURSIVE MatchFileContentFrom(_, _, _, _, _, _)
MatchFileContentFrom(cfg, cache, content, nameMap, i, matched) ==
    IF i > Len(cfg.Patterns)
    THEN {[res |-> matched, err |-> NoErr, cache |-> cache]}
    ELSE LET pattern == cfg.Patterns[i]
             \* what follows once this rule's `matched` flag is decided
             Next1(isMatch, c) ==
                 IF isMatch
                 THEN IF pattern.Stop
                      THEN {[res |-> Append(matched, pattern), err |-> NoErr,
                             cache |-> c]}
                      ELSE MatchFileContentFrom(cfg, c, content, nameMap, i + 1,
                                                Append(matched, pattern))
                 ELSE MatchFileContentFrom(cfg, c, content, nameMap, i + 1, matched)
             \* sample the content, then compile and apply the content regex
             ByContent ==
                 UNION {IF s.panic
                        THEN {[res |-> <<>>, err |-> Panic, cache |-> cache]}
                        ELSE LET g == getRegex(cache, Key(pattern.Name, "content"),
                                               pattern.Content) IN
                             IF ~g.ok
                             THEN {[res |-> <<>>,
                                    err |-> CompileErr(pattern.Name, "content"),
                                    cache |-> g.cache]}
                             ELSE Next1(RegexMatch(g.regex, s.bytes), g.cache)
                        : s \in getContentToScan(cfg, content, pattern)}
         IN  IF pattern.Filename # <<>> /\ pattern.Content # <<>>
             THEN IF pattern.Name \in nameMap
                  THEN ByContent
                  ELSE Next1(FALSE, cache)
             ELSE IF pattern.Filename # <<>> /\ pattern.Content = <<>>
             THEN Next1(pattern.Name \in nameMap, cache)
             ELSE IF pattern.Filename = <<>> /\ pattern.Content # <<>>
             THEN ByContent
             ELSE Next1(FALSE, cache)

\* the elements of s in reverse order
Reverse(s) == [k \in 1..Len(s) |-> s[Len(s) + 1 - k]]

\* MatchFileContent putting each matched rule in front of the result instead
\* of at its end
MatchFileContentPrepending(cfg, cache, filename, content) ==
    LET fm == MatchFile(cfg, cache, filename) IN
    IF fm.err # NoErr
    THEN {[res |-> <<>>, err |-> fm.err, cache |-> fm.cache]}
    ELSE {[o EXCEPT !.res = Reverse(@)] :
            o \in MatchFileContentFrom(cfg, fm.cache, content,
                                       FilenameMatchMap(fm.res), 1, <<>>)}

\* Matcher.MatchFileContent: the filename pass (MatchFile), then the loop
MatchFileContent(cfg, cache, filename, content) ==
    LET fm == MatchFile(cfg, cache, filename) IN
    IF fm.err # NoErr
    THEN {[res |-> <<>>, err |-> fm.err, cache |-> fm.cache]}
    ELSE MatchFileContentFrom(cfg, fm.cache, content, FilenameMatchMap(fm.res),
                              1, <<>>)

\* the inner loop of GetMatchedGuides: append the guides not yet seen
RECURSIVE AppendNew(_, _)
AppendNew(guides, patternGuides) ==
    IF Len(patternGuides) = 0 THEN guides
    ELSE AppendNew(IF Head(patternGuides) \in Range(guides)
                   THEN guides
                   ELSE Append(guides, Head(patternGuides)),
                   Tail(patternGuides))

\* Matcher.GetMatchedGuides
RECURSIVE GetMatchedGuidesFrom(_, _, _, _)
GetMatchedGuidesFrom(patterns, isDiff, i, guides) ==
    IF i > Len(patterns) THEN guides
    ELSE LET pattern == patterns[i]
             patternGuides == IF isDiff /\ Len(pattern.DiffContext) > 0
                              THEN pattern.DiffContext
                              ELSE pattern.Context
         IN  GetMatchedGuidesFrom(patterns, isDiff, i + 1,
                                  AppendNew(guides, patternGuides))

\* GetMatchedGuides taking the diff guides in diff mode also when a rule has none
GetMatchedGuidesNoFallback(patterns, isDiff) ==
    GetMatchedGuidesFrom(
        [i \in 1..Len(patterns) |->
            [patterns[i] EXCEPT !.Context = IF isDiff THEN patterns[i].DiffContext
                                            ELSE patterns[i].Context]],
        isDiff, 1, <<>>)

GetMatchedGuides(patterns, isDiff) == GetMatchedGuidesFrom(patterns, isDiff, 1, <<>>)

-----------------------------------------------------------------------------
(* Resolver *)

\* Resolver.needsContentScan
needsContentScan(patterns) == \E i \in 1..Len(patterns) : patterns[i].Content # <<>>

\* Resolver.hasContentPatterns
hasContentPatterns(cfg) ==
    \E i \in 1..Len(cfg.Patterns) :
        cfg.Patterns[i].Filename = <<>> /\ cfg.Patterns[i].Content # <<>>

\* Resolver.GetGuides, the content step taken when hasContentPatterns holds:
\* a failed read falls back on the filename matches fm.res if there are any
\* and is the error otherwise; a successful read is matched by MatchFileContent
ContentStepPropagating(cfg, fm, filename, rd) ==
    IF ~rd.ok
    THEN {[guides |-> <<>>, err |-> ReadErr, cache |-> fm.cache, read |-> TRUE]}
    ELSE {IF cm.err # NoErr
          THEN [guides |-> <<>>, err |-> cm.err, cache |-> cm.cache, read |-> TRUE]
          ELSE [guides |-> GetMatchedGuides(cm.res, FALSE), err |-> NoErr,
                cache |-> cm.cache, read |-> TRUE]
          : cm \in MatchFileContent(cfg, fm.cache, filename, rd.bytes)}

ContentStep(cfg, fm, filename, rd) ==
    IF ~rd.ok
    THEN IF Len(fm.res) > 0
         THEN {[guides |-> GetMatchedGuides(fm.res, FALSE), err |-> NoErr,
                cache |-> fm.cache, read |-> TRUE]}
         ELSE {[guides |-> <<>>, err |-> ReadErr, cache |-> fm.cache,
                read |-> TRUE]}
    ELSE {IF cm.err # NoErr
          THEN [guides |-> <<>>, err |-> cm.err, cache |-> cm.cache, read |-> TRUE]
          ELSE [guides |-> GetMatchedGuides(cm.res, FALSE), err |-> NoErr,
                cache |-> cm.cache, read |-> TRUE]
          : cm \in MatchFileContent(cfg, fm.cache, filename, rd.bytes)}

\* GetGuides without the early return on filename matches that need no
\* content: the file is read whenever a content-only rule exists
GetGuidesReadingFirst(cfg, cache, filename, rd) ==
    LET fm == MatchFile(cfg, cache, filename)
    IN  IF fm.err # NoErr
        THEN {[guides |-> <<>>, err |-> fm.err, cache |-> fm.cache, read |-> FALSE]}
        ELSE IF hasContentPatterns(cfg)
        THEN ContentStep(cfg, fm, filename, rd)
        ELSE {[guides |-> GetMatchedGuides(fm.res, FALSE), err |-> NoErr,
               cache |-> fm.cache, read |-> FALSE]}

\* Resolver.GetGuides; rd is what os.ReadFile(filename) returns if it is
\* called: [ok |-> TRUE, bytes |-> the content] or [ok |-> FALSE].
\* An outcome records whether the file was read.
GetGuides(cfg, cache, filename, rd) ==
    LET fm == MatchFile(cfg, cache, filename)
        filenameMatches == fm.res
    IN  IF fm.err # NoErr
        THEN {[guides |-> <<>>, err |-> fm.err, cache |-> fm.cache, read |-> FALSE]}
        ELSE IF Len(filenameMatches) > 0 /\ ~needsContentScan(filenameMatches)
        THEN {[guides |-> GetMatchedGuides(filenameMatches, FALSE), err |-> NoErr,
               cache |-> fm.cache, read |-> FALSE]}
        ELSE IF hasContentPatterns(cfg)
        THEN ContentStep(cfg, fm, filename, rd)
        ELSE {[guides |-> GetMatchedGuides(filenameMatches, FALSE), err |-> NoErr,
               cache |-> fm.cache, read |-> FALSE]}

\* GetDiffGuides asking for the full-file guides
GetDiffGuidesFullFile(cfg, cache, filename) ==
    LET fm == MatchFile(cfg, cache, filename) IN
    IF fm.err # NoErr
    THEN [guides |-> <<>>, err |-> fm.err, cache |-> fm.cache, read |-> FALSE]
    ELSE [guides |-> GetMatchedGuides(fm.res, FALSE), err |-> NoErr,
          cache |-> fm.cache, read |-> FALSE]

\* Resolver.GetDiffGuides
GetDiffGuides(cfg, cache, filename) ==
    LET fm == MatchFile(cfg, cache, filename) IN
    IF fm.err # NoErr
    THEN [guides |-> <<>>, err |-> fm.err, cache |-> fm.cache, read |-> FALSE]
    ELSE [guides |-> GetMatchedGuides(fm.res, TRUE), err |-> NoErr,
          cache |-> fm.cache, read |-> FALSE]

\* ShouldReview answering whether GetGuides succeeded, whatever the guide list
ShouldReviewOnAnyMatch(cfg, cache, filename, rd) ==
    {IF g.err = Panic
     THEN [review |-> FALSE, err |-> Panic, cache |-> g.cache, read |-> g.read]
     ELSE [review |-> g.err = NoErr, err |-> NoErr, cache |-> g.cache,
           read |-> g.read]
     : g \in GetGuides(cfg, cache, filename, rd)}

\* Resolver.ShouldReview: false on any error of GetGuides (a panic is no
\* error value: it propagates)
ShouldReview(cfg, cache, filename, rd) ==
    {IF g.err = Panic
     THEN [review |-> FALSE, err |-> Panic, cache |-> g.cache, read |-> g.read]
     ELSE IF g.err # NoErr
     THEN [review |-> FALSE, err |-> NoErr, cache |-> g.cache, read |-> g.read]
     ELSE [review |-> Len(g.guides) > 0, err |-> NoErr, cache |-> g.cache,
           read |-> g.read]
     : g \in GetGuides(cfg, cache, filename, rd)}

-----------------------------------------------------------------------------
(* Diff command (package main) *)

\* DiffCmd.Run, the loop that filters the changed files from the i-th on:
\* a file is kept when ShouldReview says so.  fs[file] is what os.ReadFile
\* returns for the file; a panic ends the run
RECURSIVE reviewableFilesFrom(_, _, _, _, _, _)
reviewableFilesFrom(cfg, cache, files, fs, i, reviewableFiles) ==
    IF i > Len(files)
    THEN {[reviewableFiles |-> reviewableFiles, err |-> NoErr]}
    ELSE UNION {IF out.err = Panic
                THEN {[reviewableFiles |-> <<>>, err |-> Panic]}
                ELSE reviewableFilesFrom(cfg, out.cache, files, fs, i + 1,
                                         IF out.review
                                         THEN Append(reviewableFiles, files[i])
                                         ELSE reviewableFiles)
                : out \in ShouldReview(cfg, cache, files[i], fs[files[i]])}

\* DiffCmd.Run up to the choice of the files to review: a new Resolver for
\* the configuration, then the filter over the changed files
DiffCmdRun(cfg, files, fs) == reviewableFilesFrom(cfg, <<>>, files, fs, 1, <<>>)

-----------------------------------------------------------------------------
(* Diff parser (package git): string helpers *)

\* strings.HasPrefix(s, prefix)
HasPrefix(s, prefix) ==
    Len(s) >= Len(prefix) /\ SubSeq(s, 1, Len(prefix)) = prefix

\* strings.TrimPrefix(s, prefix)
TrimPrefix(s, prefix) ==
    IF HasPrefix(s, prefix) THEN SubSeq(s, Len(prefix) + 1, Len(s)) ELSE s

\* the white space strings.TrimSpace removes
IsSpace(c) == c \in {" ", "\t", NL, "\r"}

\* strings.TrimSpace(s)
TrimSpace(s) ==
    LET solid == {i \in 1..Len(s) : ~IsSpace(s[i])} IN
    IF solid = {} THEN <<>>
    ELSE SubSeq(s, CHOOSE i \in solid : \A j \in solid : i <= j,
                   CHOOSE i \in solid : \A j \in solid : i >= j)

\* strings.Split(s, sep) for a non-empty sep: cut at each occurrence of sep,
\* found from the left, occurrences not overlapping
RECURSIVE Split(_, _)
Split(s, sep) ==
    LET hits == {i \in 1..(Len(s) - Len(sep) + 1) :
                    SubSeq(s, i, i + Len(sep) - 1) = sep} IN
    IF hits = {} THEN <<s>>
    ELSE LET i == CHOOSE h \in hits : \A j \in hits : h <= j IN
         <<SubSeq(s, 1, i - 1)>> \o Split(SubSeq(s, i + Len(sep), Len(s)), sep)

Digits == <<"0", "1", "2", "3", "4", "5", "6", "7", "8", "9">>

IsDigit(c) == \E d \in 1..10 : Digits[d] = c

DigitValue(c) == (CHOOSE d \in 1..10 : Digits[d] = c) - 1

\* the number a string of decimal digits denotes
RECURSIVE DecimalValue(_, _)
DecimalValue(s, acc) ==
    IF Len(s) = 0 THEN acc
    ELSE DecimalValue(Tail(s), 10 * acc + DigitValue(s[1]))

\* strconv.Atoi(s): an optional sign, then at least one digit and digits only
\* (numbers stay far below the int range here)
Atoi(s) ==
    LET signed == Len(s) > 0 /\ s[1] \in {"+", "-"}
        body == IF signed THEN Tail(s) ELSE s
    IN  IF Len(body) = 0 \/ \E i \in 1..Len(body) : ~IsDigit(body[i])
        THEN [n |-> 0, ok |-> FALSE]
        ELSE [n |-> IF s[1] = "-" THEN 0 - DecimalValue(body, 0)
                    ELSE DecimalValue(body, 0),
              ok |-> TRUE]

-----------------------------------------------------------------------------
(* Diff parser (package git) *)

\* parseRange that takes a count left out as 0
parseRangeCountZero(rangeStr) ==
    IF rangeStr = <<>> THEN [start |-> 0, count |-> 0, ok |-> TRUE]
    ELSE LET parts == Split(rangeStr, <<",">>)
             start == Atoi(parts[1])
             count == IF Len(parts) > 1 THEN Atoi(parts[2])
                      ELSE [n |-> 0, ok |-> TRUE]
         IN  IF ~start.ok \/ ~count.ok
             THEN [start |-> 0, count |-> 0, ok |-> FALSE]
             ELSE [start |-> start.n, count |-> count.n, ok |-> TRUE]

\* parseRange(rangeStr): "1,4" or "1" into start and count
parseRange(rangeStr) ==
    IF rangeStr = <<>> THEN [start |-> 0, count |-> 0, ok |-> TRUE]
    ELSE LET parts == Split(rangeStr, <<",">>)
             start == Atoi(parts[1])
             count == IF Len(parts) > 1 THEN Atoi(parts[2])
                      ELSE [n |-> 1, ok |-> TRUE]
         IN  IF ~start.ok \/ ~count.ok
             THEN [start |-> 0, count |-> 0, ok |-> FALSE]
             ELSE [start |-> start.n, count |-> count.n, ok |-> TRUE]

NoHunk == [OldStart |-> 0, OldCount |-> 0, NewStart |-> 0, NewCount |-> 0,
           Header |-> <<>>, Lines |-> <<>>]

AtAt == <<"@", "@">>

\* parseHunkHeader(line): [hunk, ok]
parseHunkHeader(originalLine) ==
    LET line == TrimSpace(originalLine)
        parts == Split(line, AtAt)
        rangeStr == TrimSpace(parts[2])
        ranges == Split(rangeStr, <<" ">>)
        old == parseRange(TrimPrefix(ranges[1], <<"-">>))
        new == parseRange(TrimPrefix(ranges[2], <<"+">>))
        failed == [hunk |-> NoHunk, ok |-> FALSE]
    IN  IF ~HasPrefix(line, AtAt) THEN failed
        ELSE IF Len(parts) < 2 THEN failed
        ELSE IF Len(ranges) # 2 THEN failed
        ELSE IF ~old.ok THEN failed
        ELSE IF ~new.ok THEN failed
        ELSE [hunk |-> [OldStart |-> old.start, OldCount |-> old.count,
                        NewStart |-> new.start, NewCount |-> new.count,
                        Header |-> originalLine, Lines |-> <<>>],
              ok |-> TRUE]

\* a Go slice of hunks: nil, or a possibly empty list
NilSlice == [isNil |-> TRUE, elems |-> <<>>]
EmptySlice == [isNil |-> FALSE, elems |-> <<>>]
append(slice, x) == [isNil |-> FALSE, elems |-> Append(slice.elems, x)]

DiffLineAdded == "added"
DiffLineRemoved == "removed"
DiffLineContext == "context"
DiffLineNoNewline == "no_newline"

\* a DiffLine; OldNum and NewNum are 0 when not set
DiffLine(type, content, oldNum, newNum) ==
    [Type |-> type, Content |-> content, OldNum |-> oldNum, NewNum |-> newNum]

\* the switch with an added line that leaves the new counter where it is
DiffLineSwitchAddedStuck(line, oldLineNum, newLineNum) ==
    LET content == Tail(line) IN
    CASE line[1] = "+" ->
            [keep |-> TRUE,
             diffLine |-> DiffLine(DiffLineAdded, content, 0, newLineNum),
             oldLineNum |-> oldLineNum, newLineNum |-> newLineNum]
      [] line[1] = "-" ->
            [keep |-> TRUE,
             diffLine |-> DiffLine(DiffLineRemoved, content, oldLineNum, 0),
             oldLineNum |-> oldLineNum + 1, newLineNum |-> newLineNum]
      [] line[1] = " " ->
            [keep |-> TRUE,
             diffLine |-> DiffLine(DiffLineContext, content, oldLineNum, newLineNum),
             oldLineNum |-> oldLineNum + 1, newLineNum |-> newLineNum + 1]
      [] line[1] = "\\" ->
            [keep |-> TRUE,
             diffLine |-> DiffLine(DiffLineNoNewline, line, 0, 0),
             oldLineNum |-> oldLineNum, newLineNum |-> newLineNum]
      [] OTHER ->
            [keep |-> FALSE,
             diffLine |-> DiffLine("", content, 0, 0),
             oldLineNum |-> oldLineNum, newLineNum |-> newLineNum]

\* the switch with a context line that advances the old counter only
DiffLineSwitchContextOldOnly(line, oldLineNum, newLineNum) ==
    LET content == Tail(line) IN
    CASE line[1] = "+" ->
            [keep |-> TRUE,
             diffLine |-> DiffLine(DiffLineAdded, content, 0, newLineNum),
             oldLineNum |-> oldLineNum, newLineNum |-> newLineNum + 1]
      [] line[1] = "-" ->
            [keep |-> TRUE,
             diffLine |-> DiffLine(DiffLineRemoved, content, oldLineNum, 0),
             oldLineNum |-> oldLineNum + 1, newLineNum |-> newLineNum]
      [] line[1] = " " ->
            [keep |-> TRUE,
             diffLine |-> DiffLine(DiffLineContext, content, oldLineNum, newLineNum),
             oldLineNum |-> oldLineNum + 1, newLineNum |-> newLineNum]
      [] line[1] = "\\" ->
            [keep |-> TRUE,
             diffLine |-> DiffLine(DiffLineNoNewline, line, 0, 0),
             oldLineNum |-> oldLineNum, newLineNum |-> newLineNum]
      [] OTHER ->
            [keep |-> FALSE,
             diffLine |-> DiffLine("", content, 0, 0),
             oldLineNum |-> oldLineNum, newLineNum |-> newLineNum]

\* the switch of ParseDiff on the first byte of a non-empty line of an open
\* hunk: whether a line is recorded, the line, and the two counters afterwards
DiffLineSwitch(line, oldLineNum, newLineNum) ==
    LET content == Tail(line) IN
    CASE line[1] = "+" ->
            [keep |-> TRUE,
             diffLine |-> DiffLine(DiffLineAdded, content, 0, newLineNum),
             oldLineNum |-> oldLineNum, newLineNum |-> newLineNum + 1]
      [] line[1] = "-" ->
            [keep |-> TRUE,
             diffLine |-> DiffLine(DiffLineRemoved, content, oldLineNum, 0),
             oldLineNum |-> oldLineNum + 1, newLineNum |-> newLineNum]
      [] line[1] = " " ->
            [keep |-> TRUE,
             diffLine |-> DiffLine(DiffLineContext, content, oldLineNum, newLineNum),
             oldLineNum |-> oldLineNum + 1, newLineNum |-> newLineNum + 1]
      [] line[1] = "\\" ->
            [keep |-> TRUE,
             diffLine |-> DiffLine(DiffLineNoNewline, line, 0, 0),
             oldLineNum |-> oldLineNum, newLineNum |-> newLineNum]
      [] OTHER ->
            [keep |-> FALSE,
             diffLine |-> DiffLine("", content, 0, 0),
             oldLineNum |-> oldLineNum, newLineNum |-> newLineNum]

OldHeader == <<"-", "-", "-", " ">>
NewHeader == <<"+", "+", "+", " ">>
DevNull == <<"/", "d", "e", "v", "/", "n", "u", "l", "l">>

\* the state of ParseDiff before its loop
ParseDiffStart(filePath, hunks) ==
    [diff |-> [FilePath |-> filePath, OldFilePath |-> <<>>, NewFilePath |-> <<>>,
               IsNew |-> FALSE, IsDeleted |-> FALSE, IsRenamed |-> FALSE,
               Hunks |-> hunks],
     open |-> FALSE, currentHunk |-> NoHunk,
     oldLineNum |-> 0, newLineNum |-> 0]

\* append the open hunk, if any, to diff.Hunks
CloseHunk(st) ==
    IF st.open THEN [st EXCEPT !.diff.Hunks = append(@, st.currentHunk)] ELSE st

NoDiff == ParseDiffStart(<<>>, NilSlice).diff

\* the loop of ParseDiff from line i on: [diff, ok]
RECURSIVE ParseDiffFrom(_, _, _)
ParseDiffFrom(lines, i, st) ==
    IF i > Len(lines) THEN [diff |-> CloseHunk(st).diff, ok |-> TRUE]
    ELSE
    LET line == lines[i] IN
    IF i = Len(lines) /\ line = <<>> THEN ParseDiffFrom(lines, i + 1, st)
    ELSE IF HasPrefix(line, OldHeader) THEN
        LET path == TrimPrefix(line, OldHeader) IN
        ParseDiffFrom(lines, i + 1,
            [st EXCEPT !.diff.OldFilePath = path,
                       !.diff.IsNew = @ \/ path = DevNull])
    ELSE IF HasPrefix(line, NewHeader) THEN
        LET path == TrimPrefix(line, NewHeader) IN
        ParseDiffFrom(lines, i + 1,
            [st EXCEPT !.diff.NewFilePath = path,
                       !.diff.IsDeleted = @ \/ path = DevNull])
    ELSE IF HasPrefix(line, AtAt) THEN
        LET h == parseHunkHeader(line) IN
        IF ~h.ok THEN [diff |-> NoDiff, ok |-> FALSE]
        ELSE ParseDiffFrom(lines, i + 1,
                [CloseHunk(st) EXCEPT !.open = TRUE, !.currentHunk = h.hunk,
                                      !.oldLineNum = h.hunk.OldStart,
                                      !.newLineNum = h.hunk.NewStart])
    ELSE IF st.open /\ Len(line) > 0 THEN
        LET sw == DiffLineSwitch(line, st.oldLineNum, st.newLineNum) IN
        ParseDiffFrom(lines, i + 1,
            [st EXCEPT !.currentHunk.Lines =
                            IF sw.keep THEN Append(@, sw.diffLine) ELSE @,
                       !.oldLineNum = sw.oldLineNum,
                       !.newLineNum = sw.newLineNum])
    ELSE ParseDiffFrom(lines, i + 1, st)

\* ParseDiff that starts from a nil hunk list
ParseDiffNilHunks(diffText, filePath) ==
    ParseDiffFrom(SplitLines(diffText), 1, ParseDiffStart(filePath, NilSlice))

\* ParseDiff(diffText, filePath): [diff, ok]; ok is FALSE for a parse error,
\* and then no DiffData is returned
ParseDiff(diffText, filePath) ==
    ParseDiffFrom(SplitLines(diffText), 1, ParseDiffStart(filePath, EmptySlice))

-----------------------------------------------------------------------------
(* Git client (package git) *)

\* a nil *File of a file patch (the file is added or deleted)
NoFile == <<>>

\* a file patch of the patch between two commits: the paths of its two
\* files and its text in the patch
FilePatch(from, to, text) == [from |-> from, to |-> to, text |-> text]

\* patch.String(): the text of the whole patch, file after file
PatchString(patch) == JoinLines([k \in 1..Len(patch) |-> patch[k].text])

\* the loop of GetFileDiff over patch.FilePatches() from file patch k on
RECURSIVE GetFileDiffFrom(_, _, _)
GetFileDiffFrom(patch, filePath, k) ==
    IF k > Len(patch) THEN [text |-> <<>>, err |-> NoDiffErr]
    ELSE IF \/ (patch[k].to # NoFile /\ patch[k].to = filePath)
            \/ (patch[k].from # NoFile /\ patch[k].from = filePath)
         THEN [text |-> PatchString(patch), err |-> NoErr]
         ELSE GetFileDiffFrom(patch, filePath, k + 1)

\* GetFileDiff(baseRef, headRef, filePath) where `patch` is the patch between
\* the two commits and `resolved` says whether both references resolve:
\* [text, err]
GetFileDiff(patch, resolved, filePath) ==
    IF ~resolved THEN [text |-> <<>>, err |-> RefErr]
    ELSE GetFileDiffFrom(patch, filePath, 1)

\* GetFileDiffData(baseRef, headRef, filePath): [diff, err]
GetFileDiffData(patch, resolved, filePath) ==
    LET raw == GetFileDiff(patch, resolved, filePath)
        parsed == ParseDiff(raw.text, filePath)
    IN  IF raw.err # NoErr THEN [diff |-> NoDiff, err |-> raw.err]
        ELSE IF ~parsed.ok THEN [diff |-> NoDiff, err |-> ParseErr]
        ELSE [diff |-> parsed.diff, err |-> NoErr]

\* the two loops of GetAddedLines / GetRemovedLines from line l of hunk h on:
\* a line of the type is appended to the result
RECURSIVE collectLines(_, _, _, _, _)
collectLines(hunks, h, l, type, acc) ==
    IF h > Len(hunks) THEN acc
    ELSE IF l > Len(hunks[h].Lines) THEN collectLines(hunks, h + 1, 1, type, acc)
    ELSE collectLines(hunks, h, l + 1, type,
                      IF hunks[h].Lines[l].Type = type
                      THEN Append(acc, hunks[h].Lines[l])
                      ELSE acc)

\* GetAddedLines that looks at the first hunk only
GetAddedLinesFirstHunk(d) ==
    collectLines(SubSeq(d.Hunks.elems, 1, 1), 1, 1, DiffLineAdded, <<>>)

\* DiffData.GetAddedLines
GetAddedLines(d) == collectLines(d.Hunks.elems, 1, 1, DiffLineAdded, <<>>)

\* DiffData.GetRemovedLines
GetRemovedLines(d) == collectLines(d.Hunks.elems, 1, 1, DiffLineRemoved, <<>>)

-----------------------------------------------------------------------------
(* Inputs: rule sets, file names, file contents *)

RuleNames == {"n1", "n2"}
Filenames == {<<"a">>, <<"b">>}
GuideNames == {"g1", "g2"}

\* all sequences over S of length at most n
SeqsUpTo(S, n) == UNION {[1..k -> S] : k \in 0..n}

\* file contents: empty, "x" on the first line, "x" on the second line only
Contents == {<<>>, <<"x">>, <<NL, "x">>, <<"x", NL>>}

\* no read of the file
NoRead == [ok |-> FALSE, bytes |-> <<>>]

\* what os.ReadFile can return: an error or the content
ReadOutcomes == {NoRead} \cup {[ok |-> TRUE, bytes |-> c] : c \in Contents}

\* config.Pattern
Rule(name, filename, content, strategy, contentLines, context, diffContext, stop) ==
    [Name |-> name, Filename |-> filename, Content |-> content,
     ContentStrategy |-> strategy, ContentLines |-> contentLines,
     Context |-> context, DiffContext |-> diffContext, Stop |-> stop]

\* Parser.validate, the checks on one pattern
ValidPattern(p) ==
    /\ p.Name # ""
    /\ ~(p.Filename = <<>> /\ p.Content = <<>>)
    /\ p.ContentStrategy \in {"", "first_lines", "full_file", "smart"}
    /\ (p.ContentStrategy = "smart" => Len(p.ContentLines) = 3)
    /\ ~(Len(p.Context) = 0 /\ Len(p.DiffContext) = 0)

\* Parser.validate
Validate(cfg) ==
    /\ cfg.ContentDefaults.Strategy \in {"first_lines", "full_file", "smart"}
    /\ \A i \in 1..Len(cfg.Patterns) : ValidPattern(cfg.Patterns[i])

\* Parser (package config): loading a document

\* the default number of lines of DefaultConfig
DefaultLines == 50

\* DefaultConfig
DefaultConfig ==
    [ContentDefaults |-> [Strategy |-> "first_lines", Lines |-> DefaultLines],
     Patterns |-> <<>>]

\* the nil *Config
NilConfig == [ContentDefaults |-> [Strategy |-> "", Lines |-> 0], Patterns |-> <<>>]

\* yaml.Unmarshal(data, config): a key of the document overwrites the field,
\* a key left out keeps it (a key is a sequence of no or one value)
Unmarshal(doc, base) ==
    [ContentDefaults |->
        [Strategy |-> IF doc.Strategy = <<>> THEN base.ContentDefaults.Strategy
                      ELSE doc.Strategy[1],
         Lines |-> IF doc.Lines = <<>> THEN base.ContentDefaults.Lines
                   ELSE doc.Lines[1]],
     Patterns |-> doc.Patterns]

ValidStrategies == {"first_lines", "full_file", "smart"}

\* Parser.validate that does not ask for a guide
validateFromNoGuideCheck(cfg, i) ==
    IF \E k \in i..Len(cfg.Patterns) :
           \/ cfg.Patterns[k].Name = ""
           \/ cfg.Patterns[k].Filename = <<>> /\ cfg.Patterns[k].Content = <<>>
           \/ cfg.Patterns[k].ContentStrategy \notin ValidStrategies \cup {""}
           \/ cfg.Patterns[k].ContentStrategy = "smart"
                  /\ Len(cfg.Patterns[k].ContentLines) # 3
    THEN InvalidErr("", "pattern")
    ELSE NoErr

\* Parser.validate, the loop over the patterns from the i-th on: the first
\* check that fails returns its error
RECURSIVE validateFrom(_, _)
validateFrom(cfg, i) ==
    IF i > Len(cfg.Patterns) THEN NoErr
    ELSE LET pattern == cfg.Patterns[i] IN
         IF pattern.Name = "" THEN InvalidErr("", "name")
         ELSE IF pattern.Filename = <<>> /\ pattern.Content = <<>>
         THEN InvalidErr(pattern.Name, "regex")
         ELSE IF pattern.ContentStrategy # ""
                 /\ pattern.ContentStrategy \notin ValidStrategies
         THEN InvalidErr(pattern.Name, "content_strategy")
         ELSE IF pattern.ContentStrategy = "smart" /\ Len(pattern.ContentLines) # 3
         THEN InvalidErr(pattern.Name, "content_lines")
         ELSE IF Len(pattern.Context) = 0 /\ Len(pattern.DiffContext) = 0
         THEN InvalidErr(pattern.Name, "guides")
         ELSE validateFrom(cfg, i + 1)

\* Parser.validate: nil (NoErr) or the first error
validate(cfg) ==
    IF cfg.ContentDefaults.Strategy \notin ValidStrategies
    THEN InvalidErr("", "strategy")
    ELSE validateFrom(cfg, 1)

\* Parser.LoadFromString: the configuration and nil, or nil and an error
LoadFromString(doc) ==
    IF ~doc.yamlOk THEN [config |-> NilConfig, err |-> YamlErr]
    ELSE LET cfg == Unmarshal(doc, DefaultConfig) IN
         IF validate(cfg) # NoErr
         THEN [config |-> NilConfig, err |-> validate(cfg)]
         ELSE [config |-> cfg, err |-> NoErr]

\* Parser.LoadFile on a path that names no file, a file that cannot be
\* read, or a file holding a document
LoadFile(file) ==
    IF ~file.exists THEN [config |-> NilConfig, err |-> NotFoundErr]
    ELSE IF ~file.readable THEN [config |-> NilConfig, err |-> ReadErr]
    ELSE IF ~file.doc.yamlOk THEN [config |-> NilConfig, err |-> YamlErr]
    ELSE LET cfg == Unmarshal(file.doc, DefaultConfig) IN
         IF validate(cfg) # NoErr
         THEN [config |-> NilConfig, err |-> validate(cfg)]
         ELSE [config |-> cfg, err |-> NoErr]

\* rule names are opaque: the first rule is named n1
FirstName(cfg) == Len(cfg.Patterns) > 0 => cfg.Patterns[1].Name = "n1"

\* the validated configurations with at most MaxRules rules taken from `rules`
Configs(defaults, rules) ==
    {cfg \in [ContentDefaults : defaults, Patterns : SeqsUpTo(rules, MaxRules)] :
        Validate(cfg) /\ FirstName(cfg)}

DistinctNames(cfg) ==
    \A i, j \in 1..Len(cfg.Patterns) :
        i # j => cfg.Patterns[i].Name # cfg.Patterns[j].Name

FirstLinesOne == {[Strategy |-> "first_lines", Lines |-> 1]}

\* Matcher runs: rules vary in name (names may repeat), filename pattern,
\* content pattern and stop flag; all patterns compile
MatcherRules ==
    {Rule(n, f, c, "", <<>>, <<"g1">>, <<>>, st) :
        n \in RuleNames, f \in {<<>>, <<"a">>, <<"b">>},
        c \in {<<>>, <<"x">>}, st \in BOOLEAN}

\* Matcher runs with pairwise distinct names: rules vary also in having an
\* invalid filename or content pattern and, for a rule with a content
\* pattern, in the strategy override
MatcherRulesDistinct ==
    {r \in {Rule(n, f, c, s, <<>>, <<"g1">>, <<>>, st) :
                n \in RuleNames, f \in {<<>>, <<"a">>, <<"b">>, <<"(">>},
                c \in {<<>>, <<"x">>, <<"(">>}, s \in {"", "full_file"},
                st \in BOOLEAN} :
        r.Content = <<>> => r.ContentStrategy = ""}

\* the changed files of a commit range: one or two files, in either order
ChangedFiles ==
    {files \in SeqsUpTo(Filenames, MaxFiles) :
        /\ Len(files) > 0
        /\ \A i, j \in 1..Len(files) : i # j => files[i] # files[j]}

\* the working tree: each file is unreadable or holds "x"
WorkingTrees == [Filenames -> {NoRead, [ok |-> TRUE, bytes |-> <<"x">>]}]

\* Cache runs: rules vary in name (names may repeat) and in filename and
\* content pattern, valid or not
CacheRules ==
    {r \in {Rule(n, f, c, "", <<>>, <<"g1">>, <<>>, FALSE) :
                n \in RuleNames, f \in {<<>>, <<"a">>, <<"b">>, <<"(">>},
                c \in {<<>>, <<"x">>, <<"(">>}} : ValidPattern(r)}

\* Resolver runs: rules vary in filename pattern (a literal or an invalid
\* one), content pattern, guides (full-file guides only, or diff guides only)
\* and stop flag
ResolverRules ==
    {Rule(n, f, c, "", <<>>, g[1], g[2], st) :
        n \in RuleNames, f \in {<<>>, <<"a">>, <<"(">>},
        c \in {<<>>, <<"x">>},
        g \in {<< <<"g1">>, <<>> >>, << <<>>, <<"g2">> >>},
        st \in BOOLEAN}

\* the i-th rule is named n1 for odd i and n2 for even i
AlternatingNames(cfg) ==
    \A i \in 1..Len(cfg.Patterns) :
        cfg.Patterns[i].Name = IF i % 2 = 1 THEN "n1" ELSE "n2"

\* GetMatchedGuides runs: rules vary in their two guide lists
GuideLists == {<<>>, <<"g1">>, <<"g1", "g2">>, <<"g2", "g1">>, <<"g2", "g2">>}

GuideRules ==
    {Rule("n1", <<"a">>, <<>>, "", <<>>, c, d, FALSE) :
        c \in GuideLists, d \in GuideLists}

\* Sampling runs: one rule with a content pattern, with or without a
\* filename pattern, its strategy left out, first_lines or full_file, and its
\* content_lines left out or one number (zero and a negative number included);
\* the defaults are first_lines or full_file with a number of lines
SamplingRules ==
    {Rule("n1", f, <<"x">>, s, l, <<"g1">>, <<>>, FALSE) :
        f \in {<<>>, <<"a">>}, s \in {"", "first_lines", "full_file"},
        l \in {<<>>, <<0>>, <<2>>, <<0 - 1>>}}

SamplingDefaults ==
    {[Strategy |-> s, Lines |-> n] :
        s \in {"first_lines", "full_file"}, n \in {1, 3, 0 - 1}}

SamplingConfigs ==
    {cfg \in {[ContentDefaults |-> d, Patterns |-> <<r>>] :
                 d \in SamplingDefaults, r \in SamplingRules} : Validate(cfg)}

\* contents of several lines: bytes "x" and newline
SampleContents == SeqsUpTo({"x", NL}, MaxSampleLen)

\* Documents to load: well-formed YAML or not; patterns that are copies of a
\* valid rule followed by one rule in which each validated field is valid or
\* not (the documented "skip" rule, a filename with stop and no guide, is one
\* of them); content_defaults.strategy left out, empty, valid or unknown
RawRules ==
    {Rule(n, f, c, s, l, g, d, FALSE) :
        n \in {"", "n1"}, f \in {<<>>, <<"a">>}, c \in {<<>>, <<"x">>},
        s \in {"", "smart", "bogus"}, l \in {<<>>, <<1, 1, 1>>},
        g \in {<<>>, <<"g1">>}, d \in {<<>>, <<"g2">>}}

SkipRule == Rule("n1", <<"a">>, <<>>, "", <<>>, <<>>, <<>>, TRUE)

GoodRule == Rule("n2", <<"b">>, <<>>, "", <<>>, <<"g1">>, <<>>, FALSE)

RawRuleLists ==
    {<<>>} \cup {[k \in 1..n |-> GoodRule] \o <<r>> :
                    n \in 0..(MaxRules - 1), r \in RawRules \cup {SkipRule}}

NoDocument == [yamlOk |-> FALSE, Strategy |-> <<>>, Lines |-> <<>>, Patterns |-> <<>>]

Documents ==
    {NoDocument}
    \cup [yamlOk : {TRUE}, Strategy : {<<>>}, Lines : {<<>>},
          Patterns : RawRuleLists]
    \cup [yamlOk : {TRUE}, Strategy : {<<"full_file">>, <<"">>, <<"bogus">>},
          Lines : {<<>>, <<30>>},
          Patterns : {<<>>, <<GoodRule>>, <<SkipRule>>}]

\* what a path can name: nothing, a file that cannot be read, a document
ConfigFiles ==
    {[exists |-> FALSE, readable |-> FALSE, doc |-> NoDocument],
     [exists |-> TRUE, readable |-> FALSE, doc |-> NoDocument]}
    \cup {[exists |-> TRUE, readable |-> TRUE, doc |-> d] : d \in Documents}

\* Smart sampling runs: one rule with a content pattern whose strategy is
\* smart, its own or inherited from the defaults, with three counts (first,
\* last, random) or, when inherited, none
SmartCounts == {<<f, l, r>> : f \in 0..2, l \in 0..2, r \in 0..2}

SmartRules ==
    {Rule("n1", <<>>, <<"x">>, s, l, <<"g1">>, <<>>, FALSE) :
        s \in {"", "smart"}, l \in SmartCounts \cup {<<>>}}

SmartConfigs ==
    {cfg \in {[ContentDefaults |-> [Strategy |-> "smart", Lines |-> 1],
               Patterns |-> <<r>>] : r \in SmartRules} : Validate(cfg)}

-----------------------------------------------------------------------------
(* Inputs: hunk headers, diff texts, patches *)

\* the decimal digits of a natural number
RECURSIVE Itoa(_)
Itoa(n) ==
    IF n < 10 THEN <<Digits[n + 1]>>
    ELSE Itoa(n \div 10) \o <<Digits[(n % 10) + 1]>>

\* a count that the header leaves out
NoCount == 0 - 1

\* "<sign><start>" or "<sign><start>,<count>"
RangeText(sign, start, count) ==
    <<sign>> \o Itoa(start)
        \o (IF count = NoCount THEN <<>> ELSE <<",">> \o Itoa(count))

\* "@@ -<start>[,<count>] +<start>[,<count>] @@<tail>"
HunkHeader(oldStart, oldCount, newStart, newCount, tail) ==
    AtAt \o <<" ">> \o RangeText("-", oldStart, oldCount) \o <<" ">>
         \o RangeText("+", newStart, newCount) \o <<" ">> \o AtAt \o tail

HeaderStarts == {0, 1, 12}
HeaderCounts == {NoCount, 0, 3, 10}
HeaderTails == {<<>>, <<" ", "f">>}

\* the headers of the grammar, with the numbers they were built from
ValidHeaders ==
    {[a |-> a, b |-> b, c |-> c, d |-> d,
      line |-> HunkHeader(a, b, c, d, tail)] :
        a \in HeaderStarts, b \in HeaderCounts,
        c \in HeaderStarts, d \in HeaderCounts, tail \in HeaderTails}

\* lines that begin with "@@" and are outside the grammar
NoClosingHeader == <<"@", "@", " ", "-", "1", " ", "+", "1">>
UnsignedHeader == <<"@", "@", " ", "1", " ", "2", " ", "@", "@">>
NoStartHeader == <<"@", "@", " ", "-", " ", "+", " ", "@", "@">>
SwappedHeader == <<"@", "@", " ", "+", "1", " ", "-", "2", " ", "@", "@">>
OneRangeHeader == <<"@", "@", " ", "-", "1", " ", "@", "@">>
ThreeRangeHeader ==
    <<"@", "@", " ", "-", "1", " ", "+", "1", " ", "+", "2", " ", "@", "@">>
NoNumberHeader == <<"@", "@", " ", "-", "x", " ", "+", "1", " ", "@", "@">>
BareHeader == <<"@", "@">>

InvalidHeaders ==
    {NoClosingHeader, UnsignedHeader, NoStartHeader, SwappedHeader,
     OneRangeHeader, ThreeRangeHeader, NoNumberHeader, BareHeader}

\* the lines of a hunk: context, removed, added, the no-newline marker, a
\* stray line, an empty line, removed text "-- b" and added text "++ c"
ContextLine == <<" ", "a">>
RemovedLine == <<"-", "b">>
AddedLine == <<"+", "c">>
MarkerLine == <<"\\", " ", "n">>
StrayLine == <<"x">>
RemovedDashes == <<"-", "-", "-", " ", "b">>
AddedPluses == <<"+", "+", "+", " ", "c">>

\* diff texts of up to MaxDiffLines lines: file headers, hunk lines, an empty
\* line, a stray line, a header of the grammar and headers outside it
DiffLines ==
    {<<>>, OldHeader \o <<"a">>, NewHeader \o DevNull,
     ContextLine, RemovedLine, AddedLine, StrayLine,
     HunkHeader(1, NoCount, 1, NoCount, <<>>),
     NoClosingHeader, UnsignedHeader, NoStartHeader, ThreeRangeHeader}

DiffTexts == {JoinLines(ls) : ls \in SeqsUpTo(DiffLines, MaxDiffLines)}

\* one header line, of the grammar or outside it, alone or before an added line
HeaderTexts ==
    {JoinLines(<<l>> \o rest) :
        l \in {h.line : h \in ValidHeaders} \cup InvalidHeaders,
        rest \in {<<>>, <<AddedLine>>}}

\* one hunk: a header of the grammar and up to MaxHunkLines lines, among them
\* the header of a second hunk
HunkLines ==
    {ContextLine, RemovedLine, AddedLine, MarkerLine, StrayLine,
     RemovedDashes, AddedPluses, HunkHeader(7, NoCount, 9, 2, <<>>)}

HunkTexts ==
    {JoinLines(<<h>> \o body) :
        h \in {HunkHeader(1, 4, 1, 4, <<>>)},
        body \in SeqsUpTo(HunkLines, MaxHunkLines)}

\* the patch of one file "a" with the given text
TextPatches(texts) == {<<FilePatch(<<"a">>, <<"a">>, t)>> : t \in texts}

\* the files a commit range changes
GitPaths == {<<"a">>, <<"b">>, <<"c">>}

\* the text of a file patch: its two file headers, one hunk header, its lines
FileText(from, to, header, lines) ==
    JoinLines(<<OldHeader \o (IF from = NoFile THEN DevNull ELSE from),
                NewHeader \o (IF to = NoFile THEN DevNull ELSE to),
                header>> \o lines)

\* file patches: a changed, a deleted, b added, b changed, c changed
FilePatches ==
    {FilePatch(<<"a">>, <<"a">>,
        FileText(<<"a">>, <<"a">>, HunkHeader(1, NoCount, 1, NoCount, <<>>),
                 <<RemovedLine, AddedLine>>)),
     FilePatch(<<"a">>, NoFile,
        FileText(<<"a">>, NoFile, HunkHeader(1, NoCount, 0, 0, <<>>),
                 <<RemovedLine>>)),
     FilePatch(NoFile, <<"b">>,
        FileText(NoFile, <<"b">>, HunkHeader(0, 0, 1, NoCount, <<>>),
                 <<AddedLine>>)),
     FilePatch(<<"b">>, <<"b">>,
        FileText(<<"b">>, <<"b">>, HunkHeader(3, 2, 3, 3, <<>>),
                 <<ContextLine, AddedLine, ContextLine>>)),
     FilePatch(<<"c">>, <<"c">>,
        FileText(<<"c">>, <<"c">>, HunkHeader(12, NoCount, 12, 0, <<>>),
                 <<RemovedLine>>))}

\* the path a file patch is about
PathOf(fp) == IF fp.to # NoFile THEN fp.to ELSE fp.from

\* patches of at most MaxFiles files, each file at most once
Patches ==
    {patch \in SeqsUpTo(FilePatches, MaxFiles) :
        \A i, j \in 1..Len(patch) :
            i # j => PathOf(patch[i]) # PathOf(patch[j])}

-----------------------------------------------------------------------------
(* The state machine: one Matcher, or one Resolver with its Matcher, and the
   calls made on it *)

NoCall == [op |-> "none", filename |-> <<>>, rd |-> NoRead,
           patterns |-> <<>>, isDiff |-> FALSE,
           res |-> <<>>, guides |-> <<>>, review |-> FALSE,
           err |-> NoErr, read |-> FALSE, pre |-> <<>>,
           diffText |-> <<>>, diff |-> NoDiff,
           sample |-> [panic |-> FALSE, bytes |-> <<>>],
           doc |-> NoDocument, cfg |-> NilConfig, files |-> <<>>]

\* NewMatcher(cfg), also through NewResolver(cfg): an empty regex cache
InitWith(cfgs) ==
    /\ config \in cfgs
    /\ compiledRegexes = <<>>
    /\ repo = <<>>
    /\ call = NoCall

InitMatcher == InitWith(Configs(FirstLinesOne, MatcherRules))

InitMatcherDistinct ==
    InitWith({cfg \in Configs(FirstLinesOne, MatcherRulesDistinct) :
                 DistinctNames(cfg)})

InitCache == InitWith(Configs(FirstLinesOne, CacheRules))

InitResolver ==
    InitWith({cfg \in Configs(FirstLinesOne, ResolverRules) :
                 AlternatingNames(cfg)})

InitGuides == InitWith(Configs(FirstLinesOne, GuideRules))

CallMatchFile ==
    \E filename \in Filenames :
        LET out == MatchFile(config, compiledRegexes, filename) IN
        /\ compiledRegexes' = out.cache
        /\ call' = [NoCall EXCEPT !.op = "MatchFile", !.filename = filename,
                                  !.res = out.res, !.err = out.err,
                                  !.pre = compiledRegexes]
        /\ UNCHANGED <<config, repo>>

CallMatchFileContent ==
    \E filename \in Filenames, content \in Contents :
        \E out \in MatchFileContent(config, compiledRegexes, filename, content) :
            /\ compiledRegexes' = out.cache
            /\ call' = [NoCall EXCEPT !.op = "MatchFileContent",
                                      !.filename = filename,
                                      !.rd = [ok |-> TRUE, bytes |-> content],
                                      !.res = out.res, !.err = out.err,
                                      !.pre = compiledRegexes]
            /\ UNCHANGED <<config, repo>>

\* MatchFile on another Matcher made by NewMatcher for the same
\* configuration: it works on its own cache
CallMatchFileOnNewMatcher ==
    \E filename \in Filenames :
        LET other == NewMatcher(config)
            out == MatchFile(other.config, other.compiledRegexes, filename)
        IN  /\ call' = [NoCall EXCEPT !.op = "NewMatcher.MatchFile",
                                      !.filename = filename,
                                      !.res = out.res, !.err = out.err,
                                      !.pre = other.compiledRegexes]
            /\ UNCHANGED <<config, compiledRegexes, repo>>

\* the lists GetMatchedGuides is called with: rules of the rule set, in any order
RuleLists(cfg) ==
    {l \in SeqsUpTo(Range(cfg.Patterns), Len(cfg.Patterns)) :
        \A i, j \in 1..Len(l) : i # j => l[i] # l[j]}

CallGetMatchedGuides ==
    \E patterns \in RuleLists(config), isDiff \in BOOLEAN :
        /\ call' = [NoCall EXCEPT !.op = "GetMatchedGuides",
                                  !.patterns = patterns, !.isDiff = isDiff,
                                  !.guides = GetMatchedGuides(patterns, isDiff),
                                  !.pre = compiledRegexes]
        /\ UNCHANGED <<config, compiledRegexes, repo>>

\* call.rd is what os.ReadFile returned, when the call read the file
CallGetGuides ==
    \E filename \in Filenames, rd \in ReadOutcomes :
        \E out \in GetGuides(config, compiledRegexes, filename, rd) :
            /\ compiledRegexes' = out.cache
            /\ call' = [NoCall EXCEPT !.op = "GetGuides", !.filename = filename,
                                      !.rd = IF out.read THEN rd ELSE NoRead,
                                      !.guides = out.guides,
                                      !.err = out.err, !.read = out.read,
                                      !.pre = compiledRegexes]
            /\ UNCHANGED <<config, repo>>

CallGetDiffGuides ==
    \E filename \in Filenames :
        LET out == GetDiffGuides(config, compiledRegexes, filename) IN
        /\ compiledRegexes' = out.cache
        /\ call' = [NoCall EXCEPT !.op = "GetDiffGuides", !.filename = filename,
                                  !.guides = out.guides,
                                  !.err = out.err, !.read = out.read,
                                  !.pre = compiledRegexes]
        /\ UNCHANGED <<config, repo>>

CallShouldReview ==
    \E filename \in Filenames, rd \in ReadOutcomes :
        \E out \in ShouldReview(config, compiledRegexes, filename, rd) :
            /\ compiledRegexes' = out.cache
            /\ call' = [NoCall EXCEPT !.op = "ShouldReview", !.filename = filename,
                                      !.rd = IF out.read THEN rd ELSE NoRead,
                                      !.review = out.review,
                                      !.err = out.err, !.read = out.read,
                                      !.pre = compiledRegexes]
            /\ UNCHANGED <<config, repo>>

\* no rule set: the diff parser and the Git client use none
NoConfig == [ContentDefaults |-> [Strategy |-> "", Lines |-> 0], Patterns |-> <<>>]

\* a GitClient on a repository whose two commits differ by one of `patches`
InitPatch(patches) ==
    /\ config = NoConfig
    /\ compiledRegexes = <<>>
    /\ repo \in patches
    /\ call = NoCall

InitDiff == InitPatch(TextPatches(DiffTexts))

InitHeader == InitPatch(TextPatches(HeaderTexts))

InitHunk == InitPatch(TextPatches(HunkTexts))

\* ParseDiff on the text of a file patch
CallParseDiff ==
    \E k \in 1..Len(repo), filePath \in Filenames :
        LET out == ParseDiff(repo[k].text, filePath) IN
        /\ call' = [NoCall EXCEPT !.op = "ParseDiff", !.filename = filePath,
                                  !.diffText = repo[k].text,
                                  !.diff = out.diff,
                                  !.err = IF out.ok THEN NoErr ELSE ParseErr]
        /\ UNCHANGED <<config, compiledRegexes, repo>>

\* GetAddedLines on the DiffData that ParseDiff returned for a text
CallGetAddedLines ==
    \E k \in 1..Len(repo) :
        LET out == ParseDiff(repo[k].text, <<"a">>) IN
        /\ out.ok
        /\ call' = [NoCall EXCEPT !.op = "GetAddedLines",
                                  !.diffText = repo[k].text,
                                  !.diff = out.diff,
                                  !.res = GetAddedLines(out.diff)]
        /\ UNCHANGED <<config, compiledRegexes, repo>>

\* GetRemovedLines on the DiffData that ParseDiff returned for a text
CallGetRemovedLines ==
    \E k \in 1..Len(repo) :
        LET out == ParseDiff(repo[k].text, <<"a">>) IN
        /\ out.ok
        /\ call' = [NoCall EXCEPT !.op = "GetRemovedLines",
                                  !.diffText = repo[k].text,
                                  !.diff = out.diff,
                                  !.res = GetRemovedLines(out.diff)]
        /\ UNCHANGED <<config, compiledRegexes, repo>>

\* the calls that list the lines of a DiffData
NextLines ==
    \/ CallGetAddedLines
    \/ CallGetRemovedLines

InitGit == InitPatch(Patches)

CallGetFileDiff ==
    \E filePath \in GitPaths, resolved \in BOOLEAN :
        LET out == GetFileDiff(repo, resolved, filePath) IN
        /\ call' = [NoCall EXCEPT !.op = "GetFileDiff", !.filename = filePath,
                                  !.diffText = out.text, !.err = out.err]
        /\ UNCHANGED <<config, compiledRegexes, repo>>

CallGetFileDiffData ==
    \E filePath \in GitPaths, resolved \in BOOLEAN :
        LET out == GetFileDiffData(repo, resolved, filePath) IN
        /\ call' = [NoCall EXCEPT !.op = "GetFileDiffData",
                                  !.filename = filePath,
                                  !.diff = out.diff, !.err = out.err]
        /\ UNCHANGED <<config, compiledRegexes, repo>>

\* the calls on a GitClient
NextGit ==
    \/ CallGetFileDiff
    \/ CallGetFileDiffData

InitSampling == InitWith(SamplingConfigs)

InitSmart == InitWith(SmartConfigs)

\* NewParser(): no configuration is loaded yet
InitLoad ==
    /\ config = NoConfig
    /\ compiledRegexes = <<>>
    /\ repo = <<>>
    /\ call = NoCall

\* Parser.LoadFromString on a document
CallLoadFromString ==
    \E doc \in Documents :
        LET out == LoadFromString(doc) IN
        /\ call' = [NoCall EXCEPT !.op = "LoadFromString", !.doc = doc,
                                  !.cfg = out.config, !.err = out.err]
        /\ UNCHANGED <<config, compiledRegexes, repo>>

\* Parser.LoadFile on a path
CallLoadFile ==
    \E file \in ConfigFiles :
        LET out == LoadFile(file) IN
        /\ call' = [NoCall EXCEPT !.op = "LoadFile", !.doc = file.doc,
                                  !.read = file.exists /\ file.readable,
                                  !.cfg = out.config, !.err = out.err]
        /\ UNCHANGED <<config, compiledRegexes, repo>>

\* the calls on a Parser
NextLoad ==
    \/ CallLoadFromString
    \/ CallLoadFile

\* getContentToScan for a rule of the rule set and a content
CallGetContentToScan ==
    \E k \in 1..Len(config.Patterns), content \in SampleContents :
        \E sample \in getContentToScan(config, content, config.Patterns[k]) :
            /\ call' = [NoCall EXCEPT !.op = "getContentToScan",
                                      !.patterns = <<config.Patterns[k]>>,
                                      !.rd = [ok |-> TRUE, bytes |-> content],
                                      !.sample = sample,
                                      !.pre = compiledRegexes]
            /\ UNCHANGED <<config, compiledRegexes, repo>>

\* MatchFileContent on a content of several lines
CallMatchSample ==
    \E filename \in Filenames, content \in SampleContents :
        \E out \in MatchFileContent(config, compiledRegexes, filename, content) :
            /\ compiledRegexes' = out.cache
            /\ call' = [NoCall EXCEPT !.op = "MatchFileContent",
                                      !.filename = filename,
                                      !.rd = [ok |-> TRUE, bytes |-> content],
                                      !.res = out.res, !.err = out.err,
                                      !.pre = compiledRegexes]
            /\ UNCHANGED <<config, repo>>

\* the calls that sample a content
NextSampling ==
    \/ CallGetContentToScan
    \/ CallMatchSample

\* the calls on a Matcher
NextMatcher ==
    \/ CallMatchFile
    \/ CallMatchFileContent

\* DiffCmd.Run on a commit range that changed `files`
CallDiffCmdRun ==
    \E files \in ChangedFiles, fs \in WorkingTrees :
        \E out \in DiffCmdRun(config, files, fs) :
            /\ call' = [NoCall EXCEPT !.op = "DiffCmd.Run", !.files = files,
                                      !.res = out.reviewableFiles,
                                      !.err = out.err]
            /\ UNCHANGED <<config, compiledRegexes, repo>>

\* the calls on a Matcher and on a second Matcher
NextCache ==
    \/ CallMatchFile
    \/ CallMatchFileContent
    \/ CallMatchFileOnNewMatcher

\* the calls on a Resolver
NextResolver ==
    \/ CallGetGuides
    \/ CallGetDiffGuides
    \/ CallShouldReview

SpecMatcher == InitMatcher /\ [][NextMatcher]_vars

SpecMatcherDistinct == InitMatcherDistinct /\ [][NextMatcher]_vars

SpecCache == InitCache /\ [][NextCache]_vars

SpecDiffCmd == InitResolver /\ [][CallDiffCmdRun]_vars

SpecResolver == InitResolver /\ [][NextResolver]_vars

SpecGuides == InitGuides /\ [][CallGetMatchedGuides]_vars

SpecDiff == InitDiff /\ [][CallParseDiff]_vars

SpecHeader == InitHeader /\ [][CallParseDiff]_vars

SpecHunk == InitHunk /\ [][CallParseDiff]_vars

SpecLines == InitHunk /\ [][NextLines]_vars

SpecGit == InitGit /\ [][NextGit]_vars

SpecSampling == InitSampling /\ [][NextSampling]_vars

SpecSmart == InitSmart /\ [][CallGetContentToScan]_vars

SpecLoad == InitLoad /\ [][NextLoad]_vars

-----------------------------------------------------------------------------
(* What the matching contracts say, stated on the rules themselves *)

\* the rule's filename pattern is a valid regex that matches the filename
FilenameMatches(p, filename) ==
    p.Filename # <<>> /\ Compiles(p.Filename) /\ RegexMatch(p.Filename, filename)

\* the rule's content pattern is a valid regex that matches the bytes sampled
\* by the rule's effective strategy
ContentMatches(cfg, p, content) ==
    /\ p.Content # <<>> /\ Compiles(p.Content)
    /\ \E s \in getContentToScan(cfg, content, p) :
           ~s.panic /\ RegexMatch(p.Content, s.bytes)

\* the filename+content policy for one rule
PolicyMatches(cfg, p, filename, content) ==
    /\ p.Filename # <<>> \/ p.Content # <<>>
    /\ p.Filename # <<>> => FilenameMatches(p, filename)
    /\ p.Content # <<>> => ContentMatches(cfg, p, content)

\* the elements of s at the indices in idx, in increasing order of index
RECURSIVE AtIndices(_, _, _)
AtIndices(s, idx, i) ==
    IF i > Len(s) THEN <<>>
    ELSE IF i \in idx THEN <<s[i]>> \o AtIndices(s, idx, i + 1)
    ELSE AtIndices(s, idx, i + 1)

\* filename-only matching as the contract states it: the rules whose filename
\* pattern matches, up to and including the first of them that has stop set
ExpectedMatchFile(cfg, filename) ==
    LET P == cfg.Patterns
        hit == {i \in 1..Len(P) : FilenameMatches(P[i], filename)}
        cut == {i \in hit : \A j \in hit : j < i => ~P[j].Stop}
    IN  AtIndices(P, cut, 1)

\* some strictly increasing choice of positions of `all` spells `sub`
IsSubsequence(sub, all) ==
    \E idx \in SUBSET (1..Len(all)) : AtIndices(all, idx, 1) = sub

\* every pattern of the rule set is a valid regular expression
AllCompile(cfg) ==
    \A i \in 1..Len(cfg.Patterns) :
        Compiles(cfg.Patterns[i].Filename) /\ Compiles(cfg.Patterns[i].Content)

\* C1: MatchFile returns exactly the rules with a non-empty filename pattern
\* matching the filename, in rule-list order, cut off right after the first
\* such rule whose stop flag is set (stated for rule sets whose patterns all
\* compile; compile errors are C8's subject).
C1_MatchFileExact ==
    (call.op = "MatchFile" /\ AllCompile(config))
        => call.err = NoErr /\ call.res = ExpectedMatchFile(config, call.filename)

\* no rule before position i matches under the filename+content policy with stop set
NoStopBefore(cfg, i, filename, content) ==
    \A j \in 1..(i - 1) :
        ~(cfg.Patterns[j].Stop
          /\ PolicyMatches(cfg, cfg.Patterns[j], filename, content))

\* C2: in MatchFileContent a filename-only rule not preceded by a rule that
\* matched with stop set is in the result iff its filename pattern matches,
\* whatever the earlier rules are.
C2_FilenameOnlyRuleDecidedByFilename ==
    (call.op = "MatchFileContent" /\ AllCompile(config)) =>
        \A i \in 1..Len(config.Patterns) :
            LET p == config.Patterns[i] IN
            (/\ p.Filename # <<>> /\ p.Content = <<>>
             /\ NoStopBefore(config, i, call.filename, call.rd.bytes))
                => (p \in Range(call.res) <=> FilenameMatches(p, call.filename))

\* C3: in MatchFileContent a rule with a content pattern not preceded by a
\* rule that matched with stop set is in the result iff its content pattern
\* matches the sampled bytes and its filename pattern, if any, matches.
C3_ContentRuleDecidedByPolicy ==
    (call.op = "MatchFileContent" /\ AllCompile(config)) =>
        \A i \in 1..Len(config.Patterns) :
            LET p == config.Patterns[i] IN
            (/\ p.Content # <<>>
             /\ NoStopBefore(config, i, call.filename, call.rd.bytes))
                => (p \in Range(call.res)
                    <=> PolicyMatches(config, p, call.filename, call.rd.bytes))

SelectedGuides(p, isDiff) ==
    IF isDiff /\ p.DiffContext # <<>> THEN p.DiffContext ELSE p.Context

\* the concatenation of the sequences of a sequence
RECURSIVE Flatten(_)
Flatten(ss) == IF Len(ss) = 0 THEN <<>> ELSE Head(ss) \o Flatten(Tail(ss))

\* s with only the first occurrence of each element kept
FirstOccurrences(s) ==
    AtIndices(s, {k \in 1..Len(s) : \A j \in 1..(k - 1) : s[j] # s[k]}, 1)

\* C5: GetMatchedGuides(rules, diffMode) is the concatenation, in the order of
\* the rules, of each rule's selected guide list (diff guides in diff mode when
\* there are any, else the full-file guides) with only the first occurrence of
\* each guide name kept.
C5_GetMatchedGuidesFirstSeenUnion ==
    call.op = "GetMatchedGuides" =>
        call.guides =
            FirstOccurrences(Flatten([i \in 1..Len(call.patterns) |->
                SelectedGuides(call.patterns[i], call.isDiff)]))

\* a diff-mode call on two rules, the first without diff guides (its full-file
\* guides are taken), the second with diff guides, that share a guide name
C5_Witness ==
    /\ call.op = "GetMatchedGuides" /\ call.isDiff /\ Len(call.patterns) = 2
    /\ call.patterns[1].DiffContext = <<>> /\ call.patterns[1].Context # <<>>
    /\ call.patterns[2].DiffContext # <<>>
    /\ Range(call.patterns[1].Context) \cap Range(call.patterns[2].DiffContext) # {}
    /\ call.guides # <<>>
    /\ Len(call.guides) < Len(call.patterns[1].Context)
                          + Len(call.patterns[2].DiffContext)

\* the filename pass GetGuides starts with, from the cache the call started from
FilenamePass == MatchFile(config, call.pre, call.filename)

\* C6: when filename-only matching returns no rule or a rule with a content
\* pattern, and the rule set has any rule with a content pattern (also one
\* that has a filename pattern too), GetGuides reads the file and returns the
\* guides of filename+content matching on its bytes (stated for rule sets whose
\* patterns all compile).
C6_ContentStepWheneverAContentPattern ==
    (/\ call.op = "GetGuides"
     /\ AllCompile(config)
     /\ Len(FilenamePass.res) = 0 \/ needsContentScan(FilenamePass.res)
     /\ \E i \in 1..Len(config.Patterns) : config.Patterns[i].Content # <<>>)
        => /\ call.read
           /\ call.rd.ok =>
                \E cm \in MatchFileContent(config, FilenamePass.cache,
                                           call.filename, call.rd.bytes) :
                    /\ call.err = cm.err
                    /\ cm.err = NoErr
                          => call.guides = GetMatchedGuides(cm.res, FALSE)

\* C7: ShouldReview(file) is true iff the guide list GetGuides(file) resolves
\* (from the same state, with the same file) is non-empty; it is false when
\* GetGuides fails and when the matching rules resolve to no guide.
C7_ShouldReviewIffGuides ==
    call.op = "ShouldReview" =>
        \E g \in GetGuides(config, call.pre, call.filename, call.rd) :
            /\ g.read = call.read
            /\ call.review <=> (g.err = NoErr /\ Len(g.guides) > 0)

\* ShouldReview answered false for a file that matches a rule, because the
\* matching rules have no full-file guide
C7_Witness ==
    /\ call.op = "ShouldReview" /\ ~call.review
    /\ FilenamePass.err = NoErr /\ FilenamePass.res # <<>>
    /\ \E g \in GetGuides(config, call.pre, call.filename, call.rd) :
           g.err = NoErr /\ g.guides = <<>>

\* the rule set has a rule of that name whose pattern of that kind is invalid
InvalidPatternOf(cfg, name, which) ==
    \E i \in 1..Len(cfg.Patterns) :
        /\ cfg.Patterns[i].Name = name
        /\ \/ which = "filename" /\ ~Compiles(cfg.Patterns[i].Filename)
           \/ which = "content" /\ ~Compiles(cfg.Patterns[i].Content)

\* C8: on a rule set with an invalid regular expression no call of MatchFile,
\* MatchFileContent, GetGuides, GetDiffGuides or ShouldReview completes with
\* an ordinary answer (no error), and a compile error names an offending rule
\* and the kind of its invalid pattern.
C8_InvalidPatternAlwaysSurfaced ==
    (/\ call.op \in {"MatchFile", "MatchFileContent", "GetGuides",
                     "GetDiffGuides", "ShouldReview"}
     /\ ~AllCompile(config))
        => /\ call.err # NoErr
           /\ call.err.kind = "compile"
                 => InvalidPatternOf(config, call.err.rule, call.err.pattern)

\* C9: when GetGuides reads the file and the read fails, it returns without
\* error the guides of the filename-only matches if there is one, and the
\* read error with no guide list if there is none.
C9_ReadFailureDegradesToFilenameMatches ==
    (call.op = "GetGuides" /\ call.read /\ ~call.rd.ok) =>
        IF FilenamePass.res # <<>>
        THEN call.err = NoErr
             /\ call.guides = GetMatchedGuides(FilenamePass.res, FALSE)
        ELSE call.err = ReadErr /\ call.guides = <<>>

\* a failed read answered with the non-empty guides of the filename matches
C9_Witness ==
    /\ call.op = "GetGuides" /\ call.read /\ ~call.rd.ok
    /\ FilenamePass.res # <<>> /\ call.err = NoErr /\ call.guides # <<>>

\* the filename pass found a rule and no rule it found has a content pattern
FilenameMatchesSuffice ==
    /\ FilenamePass.err = NoErr
    /\ FilenamePass.res # <<>>
    /\ \A i \in 1..Len(FilenamePass.res) : FilenamePass.res[i].Content = <<>>

\* C25: GetGuides reads no file when filename-only matching yields at least
\* one rule and none of the matched rules carries a content pattern: it
\* returns GetMatchedGuides of those matches, and the result is the same
\* whether the file is readable (whatever it holds), unreadable or absent
C25_NoReadWhenFilenameMatchesSuffice ==
    (call.op = "GetGuides" /\ FilenameMatchesSuffice) =>
        /\ ~call.read /\ call.rd = NoRead
        /\ call.err = NoErr
        /\ call.guides = GetMatchedGuides(FilenamePass.res, FALSE)
        /\ \A rd \in ReadOutcomes :
               \A out \in GetGuides(config, call.pre, call.filename, rd) :
                   ~out.read /\ out.err = NoErr /\ out.guides = call.guides

\* guides returned without a read although the rule set has a content-only
\* rule
C25_Witness ==
    /\ call.op = "GetGuides" /\ FilenameMatchesSuffice
    /\ hasContentPatterns(config)
    /\ ~call.read /\ call.guides # <<>>

\* the contents the file of the last GetGuides call can have had: the one
\* that was read, or any when the call did not read
ReadableContents ==
    IF call.read THEN {call.rd.bytes} ELSE Contents

\* C28: for a readable file GetGuides(file) equals
\* GetMatchedGuides(MatchFileContent(file, content), false); in particular a
\* content-only rule whose pattern matches contributes its guides also when a
\* filename-only rule matches the same file (stated for rule sets whose
\* patterns all compile and whose rules are filename-only or content-only)
C28_GetGuidesIsContentMatching ==
    (/\ call.op = "GetGuides"
     /\ AllCompile(config)
     /\ \A i \in 1..Len(config.Patterns) :
            config.Patterns[i].Filename = <<>> \/ config.Patterns[i].Content = <<>>
     /\ call.read => call.rd.ok)
        => \A content \in ReadableContents :
               \E cm \in MatchFileContent(config, call.pre, call.filename, content) :
                   /\ call.err = cm.err
                   /\ call.guides = GetMatchedGuides(cm.res, FALSE)

\* the guides the diff review of a file would use
DiffReviewGuides(file) == GetDiffGuides(config, <<>>, file)

\* C30: in the diff command a changed file that matches a rule with
\* diff_context guides and no context guides is selected for review, not
\* skipped: a file is skipped in diff mode only if no guide would be used
\* for its diff review
C30_DiffCommandSelectsByDiffGuides ==
    (call.op = "DiffCmd.Run" /\ call.err = NoErr) =>
        \A k \in 1..Len(call.files) :
            (/\ DiffReviewGuides(call.files[k]).err = NoErr
             /\ DiffReviewGuides(call.files[k]).guides # <<>>)
                => call.files[k] \in Range(call.res)

\* the rule set without its content-only rules and without the content
\* patterns of its other rules
WithoutContent(cfg) ==
    [ContentDefaults |-> cfg.ContentDefaults,
     Patterns |-> SelectSeq([i \in 1..Len(cfg.Patterns) |->
                                [cfg.Patterns[i] EXCEPT !.Content = <<>>]],
                            LAMBDA p : p.Filename # <<>>)]

\* C10: GetDiffGuides never reads the file; its result is
\* GetMatchedGuides(MatchFile(file), diffMode = true), and it is the same on
\* the rule set stripped of every content pattern and content-only rule.
C10_DiffGuidesFromFilenameOnly ==
    call.op = "GetDiffGuides" =>
        LET stripped == MatchFile(WithoutContent(config), call.pre, call.filename) IN
        /\ ~call.read /\ call.rd = NoRead
        /\ call.err = FilenamePass.err /\ call.err = stripped.err
        /\ call.err = NoErr
              => /\ call.guides = GetMatchedGuides(FilenamePass.res, TRUE)
                 /\ call.guides = GetMatchedGuides(stripped.res, TRUE)

\* diff guides resolved from a filename match while the rule set also has a
\* content-only rule, the diff guides differing from the full-file guides
C10_Witness ==
    /\ call.op = "GetDiffGuides" /\ call.err = NoErr /\ call.guides # <<>>
    /\ hasContentPatterns(config)
    /\ call.guides # GetMatchedGuides(FilenamePass.res, FALSE)

\* C27: rule names need not be unique: when two rules share a name but
\* have different patterns, MatchFile and MatchFileContent still decide each
\* rule by its own patterns, so every rule they return matches by its own
\* filename pattern (MatchFile) or its own filename and content patterns
\* (MatchFileContent)
C27_SharedNameRulesDecidedByOwnPatterns ==
    /\ (call.op = "MatchFile" /\ call.err = NoErr) =>
           \A k \in 1..Len(call.res) :
               FilenameMatches(call.res[k], call.filename)
    /\ (call.op = "MatchFileContent" /\ call.err = NoErr) =>
           \A k \in 1..Len(call.res) :
               PolicyMatches(config, call.res[k], call.filename, call.rd.bytes)

\* the pattern a rule of the rule set has for the key, if any
PatternsOfKey(cfg, key) ==
    {cfg.Patterns[i].Filename : i \in {j \in 1..Len(cfg.Patterns) :
        key = Key(cfg.Patterns[j].Name, "filename")}}
    \cup {cfg.Patterns[i].Content : i \in {j \in 1..Len(cfg.Patterns) :
        key = Key(cfg.Patterns[j].Name, "content")}}

\* one step of the cache: entries stay as they are, a new entry holds a
\* pattern of its key that compiles, and a call on another Matcher neither
\* sees nor changes this cache
CacheStep ==
    /\ \A k \in DOMAIN compiledRegexes :
           k \in DOMAIN compiledRegexes' /\ compiledRegexes'[k] = compiledRegexes[k]
    /\ \A k \in DOMAIN compiledRegexes' :
           /\ Compiles(compiledRegexes'[k])
           /\ compiledRegexes'[k] \in PatternsOfKey(config, k)
    /\ call'.err.kind = "compile" =>
           Key(call'.err.rule, call'.err.pattern) \notin DOMAIN compiledRegexes'
    /\ call'.op = "NewMatcher.MatchFile" =>
           /\ compiledRegexes' = compiledRegexes
           /\ LET fresh == MatchFile(config, <<>>, call'.filename) IN
              call'.res = fresh.res /\ call'.err = fresh.err

\* C26: over any sequence of MatchFile and MatchFileContent calls on one
\* Matcher, an entry of the regex cache is never replaced or removed once it
\* is there (so each key is compiled at most once and later calls reuse it),
\* a failed compilation adds no entry, and the cache is not visible to
\* another Matcher
C26_CacheEntriesArePermanent == [][CacheStep]_vars

\* a call that failed on a pattern that does not compile, made on a cache
\* that already held entries: they are all still there and the failed key
\* is not
C26_Witness ==
    /\ call.op \in {"MatchFile", "MatchFileContent"}
    /\ call.err.kind = "compile"
    /\ DOMAIN call.pre # {}
    /\ \A k \in DOMAIN call.pre : compiledRegexes[k] = call.pre[k]
    /\ Key(call.err.rule, call.err.pattern) \notin DOMAIN compiledRegexes

-----------------------------------------------------------------------------
(* What the diff parser contracts say *)

\* no line of the text begins with "@@"
NoHeaderLine(text) ==
    LET lines == SplitLines(text) IN
    \A i \in 1..Len(lines) : ~HasPrefix(lines[i], AtAt)

\* C11: ParseDiff on a text with no line beginning with "@@" (the empty text,
\* a text with only file headers or other lines) returns no error and a
\* DiffData whose hunk list is empty and not nil and whose FilePath is the
\* path given
C11_NoHeaderLineNoHunks ==
    (call.op = "ParseDiff" /\ NoHeaderLine(call.diffText))
        => /\ call.err = NoErr
           /\ call.diff.Hunks = EmptySlice
           /\ call.diff.FilePath = call.filename

\* a text of a file header and hunk-like lines, and none beginning with "@@"
C11_Witness ==
    /\ call.op = "ParseDiff"
    /\ NoHeaderLine(call.diffText)
    /\ call.diff.OldFilePath = <<"a">>
    /\ AddedLine \in Range(SplitLines(call.diffText))

\* the count a header of the grammar gives: 1 when it is left out
HeaderCount(count) == IF count = NoCount THEN 1 ELSE count

\* C12: for every header "@@ -a,b +c,d @@" of the grammar the parsed hunk has
\* OldStart = a, OldCount = b, NewStart = c, NewCount = d; a count that is
\* left out is 1; and the hunk's Header is the header line verbatim
C12_ValidHeaderParsedExactly ==
    call.op = "ParseDiff" =>
        \A h \in ValidHeaders :
            SplitLines(call.diffText)[1] = h.line =>
                /\ call.err = NoErr
                /\ Len(call.diff.Hunks.elems) = 1
                /\ LET hunk == call.diff.Hunks.elems[1] IN
                   /\ hunk.OldStart = h.a
                   /\ hunk.OldCount = HeaderCount(h.b)
                   /\ hunk.NewStart = h.c
                   /\ hunk.NewCount = HeaderCount(h.d)
                   /\ hunk.Header = h.line

\* "@@ -12 +1,10 @@ f" has been parsed: a two-digit start, a count left
\* out, a two-digit count and text after the closing "@@"
C12_Witness ==
    /\ call.op = "ParseDiff"
    /\ call.diffText = HunkHeader(12, NoCount, 1, 10, <<" ", "f">>)
    /\ call.err = NoErr
    /\ call.diff.Hunks.elems[1].OldCount = 1

\* "<start>" or "<start>,<count>", both numbers of at least one digit
IsRangeBody(s) ==
    LET parts == Split(s, <<",">>) IN
    /\ Len(parts) \in {1, 2}
    /\ \A k \in 1..Len(parts) :
          /\ Len(parts[k]) > 0
          /\ \A j \in 1..Len(parts[k]) : IsDigit(parts[k][j])

\* the line is "@@ -<start>[,<count>] +<start>[,<count>] @@", possibly with
\* text after the closing "@@"
MatchesHeaderGrammar(line) ==
    LET tokens == Split(line, <<" ">>) IN
    /\ Len(tokens) >= 4
    /\ tokens[1] = AtAt
    /\ HasPrefix(tokens[2], <<"-">>) /\ IsRangeBody(Tail(tokens[2]))
    /\ HasPrefix(tokens[3], <<"+">>) /\ IsRangeBody(Tail(tokens[3]))
    /\ tokens[4] = AtAt

\* C13: whenever some line beginning with "@@" is outside the hunk-header
\* grammar, ParseDiff fails with a parse error and returns no DiffData
C13_HeaderOutsideGrammarRejected ==
    call.op = "ParseDiff" =>
        LET lines == SplitLines(call.diffText) IN
        (\E i \in 1..Len(lines) :
            HasPrefix(lines[i], AtAt) /\ ~MatchesHeaderGrammar(lines[i]))
        => (call.err = ParseErr /\ call.diff = NoDiff)

\* the lines of one type of a hunk, in order
LinesOfType(hunk, type) == SelectSeq(hunk.Lines, LAMBDA l : l.Type = type)

\* the NewNum of the Added lines and the OldNum of the Removed lines, in order
AddedNums(hunk) ==
    LET added == LinesOfType(hunk, DiffLineAdded) IN
    [i \in 1..Len(added) |-> added[i].NewNum]

RemovedNums(hunk) ==
    LET removed == LinesOfType(hunk, DiffLineRemoved) IN
    [i \in 1..Len(removed) |-> removed[i].OldNum]

StrictlyIncreasing(nums) == \A i \in 1..(Len(nums) - 1) : nums[i] < nums[i + 1]

\* the number of lines of the given types among the first n lines of a hunk
CountBefore(hunk, n, types) ==
    Cardinality({j \in 1..n : hunk.Lines[j].Type \in types})

\* the position of the first line of a type in a hunk that has one
FirstOfType(hunk, type) ==
    CHOOSE i \in 1..Len(hunk.Lines) :
        /\ hunk.Lines[i].Type = type
        /\ \A j \in 1..(i - 1) : hunk.Lines[j].Type # type

\* the hunks the last call of ParseDiff returned
ParsedHunks ==
    IF call.op = "ParseDiff" /\ call.err = NoErr THEN Range(call.diff.Hunks.elems)
    ELSE {}

\* C14 as claimed: in every hunk the NewNum of the Added lines are strictly
\* increasing and start at NewStart, and the OldNum of the Removed lines are
\* strictly increasing and start at OldStart
C14_AddedAndRemovedStartAtHeader ==
    \A hunk \in ParsedHunks :
        /\ StrictlyIncreasing(AddedNums(hunk))
        /\ Len(AddedNums(hunk)) > 0 => AddedNums(hunk)[1] = hunk.NewStart
        /\ StrictlyIncreasing(RemovedNums(hunk))
        /\ Len(RemovedNums(hunk)) > 0 => RemovedNums(hunk)[1] = hunk.OldStart

\* C14 amended: in every hunk the NewNum of the Added lines are strictly
\* increasing and start at NewStart plus the number of Context lines before
\* the first Added line, and the OldNum of the Removed lines are strictly
\* increasing and start at OldStart plus the number of Context lines before
\* the first Removed line
C14_AddedAndRemovedStartAfterContext ==
    \A hunk \in ParsedHunks :
        /\ StrictlyIncreasing(AddedNums(hunk))
        /\ Len(AddedNums(hunk)) > 0 =>
              AddedNums(hunk)[1] = hunk.NewStart
                  + CountBefore(hunk, FirstOfType(hunk, DiffLineAdded) - 1,
                                {DiffLineContext})
        /\ StrictlyIncreasing(RemovedNums(hunk))
        /\ Len(RemovedNums(hunk)) > 0 =>
              RemovedNums(hunk)[1] = hunk.OldStart
                  + CountBefore(hunk, FirstOfType(hunk, DiffLineRemoved) - 1,
                                {DiffLineContext})

\* a hunk with two Added lines after a Context line, and a Removed line
C14_Witness ==
    \E hunk \in ParsedHunks :
        /\ Len(AddedNums(hunk)) >= 2
        /\ AddedNums(hunk)[1] > hunk.NewStart
        /\ Len(RemovedNums(hunk)) >= 1

\* the numbers line i of a hunk carries under the bookkeeping rule: the
\* start of the header plus the lines before it that count for that side
ExpectedNewNum(hunk, i) ==
    hunk.NewStart + CountBefore(hunk, i - 1, {DiffLineAdded, DiffLineContext})

ExpectedOldNum(hunk, i) ==
    hunk.OldStart + CountBefore(hunk, i - 1, {DiffLineRemoved, DiffLineContext})

\* the text of the example: " a", "-b", "+c", " d" after "@@ -1,4 +1,4 @@"
\* (the second context line is " a" here)
RoundTripText ==
    JoinLines(<<HunkHeader(1, 4, 1, 4, <<>>),
                ContextLine, RemovedLine, AddedLine, ContextLine>>)

\* C15: in every hunk a line's NewNum is NewStart plus the number of Added
\* and Context lines before it in the hunk and its OldNum is OldStart plus the
\* number of Removed and Context lines before it; an Added line has only a
\* new number, a Removed line only an old number, a Context line both, a
\* no-newline marker none; each hunk counts from its own header; and the
\* example gives context(1,1), removed(old 2), added(new 2), context(3,3)
C15_LineCounterBookkeeping ==
    /\ \A hunk \in ParsedHunks :
          \A i \in 1..Len(hunk.Lines) :
              LET l == hunk.Lines[i] IN
              /\ l.Type \in {DiffLineAdded, DiffLineRemoved, DiffLineContext,
                              DiffLineNoNewline}
              /\ l.NewNum = IF l.Type \in {DiffLineAdded, DiffLineContext}
                            THEN ExpectedNewNum(hunk, i) ELSE 0
              /\ l.OldNum = IF l.Type \in {DiffLineRemoved, DiffLineContext}
                            THEN ExpectedOldNum(hunk, i) ELSE 0
    /\ (call.op = "ParseDiff" /\ call.diffText = RoundTripText) =>
          /\ call.err = NoErr
          /\ Len(call.diff.Hunks.elems) = 1
          /\ [i \in 1..4 |-> <<call.diff.Hunks.elems[1].Lines[i].Type,
                                call.diff.Hunks.elems[1].Lines[i].OldNum,
                                call.diff.Hunks.elems[1].Lines[i].NewNum>>]
                = << <<DiffLineContext, 1, 1>>, <<DiffLineRemoved, 2, 0>>,
                     <<DiffLineAdded, 0, 2>>, <<DiffLineContext, 3, 3>> >>

\* a second hunk with its own starts, holding a no-newline marker between a
\* removed and an added line
C15_Witness ==
    /\ call.op = "ParseDiff" /\ call.err = NoErr
    /\ Len(call.diff.Hunks.elems) = 2
    /\ call.diff.Hunks.elems[2].NewStart # call.diff.Hunks.elems[1].NewStart
    /\ [i \in 1..Len(call.diff.Hunks.elems[2].Lines) |->
            call.diff.Hunks.elems[2].Lines[i].Type]
          = <<DiffLineRemoved, DiffLineNoNewline, DiffLineAdded>>

\* the lines of all hunks of a DiffData, in order
AllDiffLines(diff) ==
    Flatten([k \in 1..Len(diff.Hunks.elems) |-> diff.Hunks.elems[k].Lines])

\* the contents of the recorded lines of a type, in order
ContentsOfType(diff, type) ==
    LET ls == SelectSeq(AllDiffLines(diff), LAMBDA l : l.Type = type) IN
    [i \in 1..Len(ls) |-> ls[i].Content]

\* the input lines with the given first character, without it, in order
MarkedInput(lines, marker) ==
    LET ls == SelectSeq(lines, LAMBDA l : Len(l) > 0 /\ l[1] = marker) IN
    [i \in 1..Len(ls) |-> Tail(ls[i])]

\* C16: when the text opens a hunk with its first line, every later line
\* whose first character is "-" is recorded as a Removed line with the rest
\* of the line as content, and every line whose first character is "+" as an
\* Added line, whatever the rest of the line is ("-- b" and "++ c" included)
C16_EveryMarkedLineRecorded ==
    (call.op = "ParseDiff" /\ call.err = NoErr
        /\ HasPrefix(SplitLines(call.diffText)[1], AtAt))
    => /\ ContentsOfType(call.diff, DiffLineRemoved)
            = MarkedInput(SplitLines(call.diffText), "-")
       /\ ContentsOfType(call.diff, DiffLineAdded)
            = MarkedInput(SplitLines(call.diffText), "+")

\* the lines of a type among all lines of a DiffData, hunk after hunk
StatedLines(diff, type) ==
    SelectSeq(AllDiffLines(diff), LAMBDA l : l.Type = type)

\* C24: GetAddedLines and GetRemovedLines return exactly the Added
\* (respectively Removed) lines of all hunks, flattened in hunk order and in
\* the order of the lines of each hunk: no line of another kind, none dropped,
\* none duplicated
C24_AddedAndRemovedLinesFlattened ==
    /\ call.op = "GetAddedLines" =>
           call.res = StatedLines(call.diff, DiffLineAdded)
    /\ call.op = "GetRemovedLines" =>
           call.res = StatedLines(call.diff, DiffLineRemoved)

\* a DiffData of two hunks, each with an Added line after another line: both
\* Added lines are returned, the one of the first hunk first
C24_Witness ==
    /\ call.op = "GetAddedLines"
    /\ Len(call.diff.Hunks.elems) = 2
    /\ Len(call.diff.Hunks.elems[1].Lines) = 2
    /\ Len(call.res) = 2
    /\ call.res[1] = call.diff.Hunks.elems[1].Lines[2]
    /\ call.res[2] = call.diff.Hunks.elems[2].Lines[1]

-----------------------------------------------------------------------------
(* What the Git client contract says *)

\* the file patches of the repository that are about a path
PatchesOf(filePath) == {k \in 1..Len(repo) : PathOf(repo[k]) = filePath}

\* C17: GetFileDiff returns the diff text of exactly the requested file, and
\* GetFileDiffData the DiffData of that text: the hunks, the old and new path
\* and the flags of that file only, also when several files changed
C17_DiffOfRequestedFileOnly ==
    /\ (call.op = "GetFileDiff" /\ call.err = NoErr) =>
          \E k \in PatchesOf(call.filename) : call.diffText = repo[k].text
    /\ (call.op = "GetFileDiffData" /\ call.err = NoErr) =>
          \E k \in PatchesOf(call.filename) :
              call.diff = ParseDiff(repo[k].text, call.filename).diff

-----------------------------------------------------------------------------
(* What the content sampling contracts say *)

\* the strategy in force for a rule: its own when it names one, else the default
EffectiveStrategy(cfg, p) ==
    IF p.ContentStrategy # "" THEN p.ContentStrategy
    ELSE cfg.ContentDefaults.Strategy

\* the first n lines of a content joined by newline, the whole content when
\* it has no more than n lines
FirstLinesOf(content, n) ==
    LET lines == SplitLines(content) IN
    IF n >= Len(lines) THEN content ELSE JoinLines(SubSeq(lines, 1, n))

\* the last call was getContentToScan for a rule whose strategy in force is
\* first_lines
SampledFirstLines ==
    /\ call.op = "getContentToScan"
    /\ EffectiveStrategy(config, call.patterns[1]) = "first_lines"

\* C18: first_lines with line count N >= 0 on a content of T lines returns
\* the first N lines joined by newline when N < T and the whole content when
\* N >= T.  N is the number the rule gives next to its own first_lines
\* strategy, or the default number when the rule gives none
C18_FirstLinesSample ==
    SampledFirstLines =>
        LET p == call.patterns[1] IN
        /\ (p.ContentStrategy = "first_lines" /\ Len(p.ContentLines) > 0
               /\ p.ContentLines[1] >= 0)
           => call.sample = [panic |-> FALSE,
                             bytes |-> FirstLinesOf(call.rd.bytes, p.ContentLines[1])]
        /\ (Len(p.ContentLines) = 0 /\ config.ContentDefaults.Lines >= 0)
           => call.sample = [panic |-> FALSE,
                             bytes |-> FirstLinesOf(call.rd.bytes,
                                                    config.ContentDefaults.Lines)]

\* two lines taken of a content of more than two lines
C18_Witness ==
    /\ SampledFirstLines
    /\ call.patterns[1].ContentStrategy = "first_lines"
    /\ call.patterns[1].ContentLines = <<2>>
    /\ Len(SplitLines(call.rd.bytes)) > 2
    /\ call.sample.bytes # call.rd.bytes

\* the line count the rule set states for a rule: the rule's single
\* content_lines value when it gives one, else the default number of lines
StatedLineCount(cfg, p) ==
    IF Len(p.ContentLines) = 1 THEN p.ContentLines[1]
    ELSE cfg.ContentDefaults.Lines

\* C19: whenever the strategy in force for a rule is first_lines, set on the
\* rule or inherited from the defaults, the number of lines sampled is the
\* rule's single content_lines value if it gives one and the default number
\* of lines otherwise (stated for numbers that are not negative)
C19_FirstLinesCountFromRuleElseDefault ==
    (SampledFirstLines /\ StatedLineCount(config, call.patterns[1]) >= 0
        /\ config.ContentDefaults.Lines >= 0)
    => call.sample =
         [panic |-> FALSE,
          bytes |-> FirstLinesOf(call.rd.bytes,
                                 StatedLineCount(config, call.patterns[1]))]

\* the rule has no filename pattern, or its filename pattern matches
FilenameAllows(p, filename) ==
    p.Filename = <<>> \/ RegexMatch(p.Filename, filename)

\* the rule's line count is not in question and not negative: the rule names
\* first_lines and gives a number, or the rule gives no number and the
\* default number is taken
PlainLineCount(cfg, p) ==
    \/ p.ContentStrategy = "first_lines" /\ Len(p.ContentLines) > 0
          /\ p.ContentLines[1] >= 0
    \/ Len(p.ContentLines) = 0 /\ cfg.ContentDefaults.Lines >= 0

LineCountOf(cfg, p) ==
    IF Len(p.ContentLines) > 0 THEN p.ContentLines[1]
    ELSE cfg.ContentDefaults.Lines

\* C20: the strategy in force is the rule's own when it names one, else the
\* default.  Under full_file the sample is the whole content unchanged, and a
\* rule with a content pattern matches whenever the pattern occurs anywhere
\* in the file (and its filename pattern, if any, matches); under first_lines
\* with N lines the rule does not match when the pattern occurs only beyond
\* line N
C20_StrategyDecidesWhatARuleSees ==
    /\ (call.op = "getContentToScan"
          /\ EffectiveStrategy(config, call.patterns[1]) = "full_file")
       => call.sample = [panic |-> FALSE, bytes |-> call.rd.bytes]
    /\ (call.op = "MatchFileContent" /\ Len(config.Patterns) = 1) =>
          LET p == config.Patterns[1]
              content == call.rd.bytes
          IN  /\ (EffectiveStrategy(config, p) = "full_file"
                    /\ FilenameAllows(p, call.filename)
                    /\ RegexMatch(p.Content, content))
                 => (call.err = NoErr /\ call.res = <<p>>)
              /\ (EffectiveStrategy(config, p) = "first_lines"
                    /\ PlainLineCount(config, p)
                    /\ ~RegexMatch(p.Content,
                                   FirstLinesOf(content, LineCountOf(config, p))))
                 => (call.err = NoErr /\ call.res = <<>>)

\* a rule that names first_lines with 2 lines under full_file defaults, and a
\* file with the pattern on line 3 only: no match
C20_Witness ==
    /\ call.op = "MatchFileContent"
    /\ config.ContentDefaults.Strategy = "full_file"
    /\ config.Patterns[1].ContentStrategy = "first_lines"
    /\ config.Patterns[1].ContentLines = <<2>>
    /\ FilenameAllows(config.Patterns[1], call.filename)
    /\ call.rd.bytes = <<NL, NL, "x">>
    /\ call.res = <<>>

\* the first, last and random counts of a smart rule that states them
SmartFirst(p) == p.ContentLines[1]

SmartLast(p) == p.ContentLines[2]

SmartRandom(p) == p.ContentLines[3]

Max(a, b) == IF a > b THEN a ELSE b

\* the samples the smart strategy is said to return for the lines of a
\* content: the first block, the tail block that never overlaps it, then,
\* on a content longer than both, `random` lines of the middle, any of them
StatedSmartSamples(lines, first, last, random) ==
    LET T == Len(lines)
        head == SubSeq(lines, 1, Min(first, T))
        tail == SubSeq(lines, Max(T - last, first) + 1, T)
        picks == IF T > first + last /\ random > 0
                 THEN [1..random -> (first + 1)..(T - last)]
                 ELSE {<<>>}
    IN  {JoinLines(head \o tail \o [k \in 1..Len(d) |-> lines[d[k]]]) :
            d \in picks}

\* a call of getContentToScan for a rule sampled smartly with three
\* non-negative counts
SmartCall ==
    /\ call.op = "getContentToScan"
    /\ EffectiveStrategy(config, call.patterns[1]) = "smart"
    /\ Len(call.patterns[1].ContentLines) = 3
    /\ \A k \in 1..3 : call.patterns[1].ContentLines[k] >= 0

\* C21: smart sampling with non-negative counts [first, last, random] of a
\* content of T lines returns the first min(first, T) lines, then the lines
\* from max(T - last, first) on, then, only if T > first + last, exactly
\* `random` lines with an index in [first, T - last), any of which may be
\* drawn; when T <= first + last the sample is every line once, in order
C21_SmartSample ==
    SmartCall =>
        LET p == call.patterns[1]
            lines == SplitLines(call.rd.bytes)
            stated == StatedSmartSamples(lines, SmartFirst(p), SmartLast(p),
                                         SmartRandom(p))
        IN  /\ ~call.sample.panic
            /\ call.sample.bytes \in stated
            /\ \A b \in stated :
                   [panic |-> FALSE, bytes |-> b]
                       \in getContentToScan(config, call.rd.bytes, p)
            /\ Len(lines) <= SmartFirst(p) + SmartLast(p)
                   => call.sample.bytes = JoinLines(lines)

\* a content of three lines sampled with counts [1, 1, 1]: first line, last
\* line, then the middle line
C21_Witness ==
    /\ SmartCall
    /\ call.patterns[1].ContentLines = <<1, 1, 1>>
    /\ call.rd.bytes = <<"x", NL, NL>>
    /\ call.sample = [panic |-> FALSE, bytes |-> <<"x", NL, NL>>]

\* C29: content sampling never faults: for every validated configuration,
\* whatever integers content_defaults.lines and content_lines hold (zero and
\* negative ones included), and every content, getContentToScan and hence
\* MatchFileContent return normally
C29_SamplingNeverFaults ==
    /\ call.op = "getContentToScan" => ~call.sample.panic
    /\ call.op = "MatchFileContent" => call.err # Panic

-----------------------------------------------------------------------------
(* What the configuration contracts say *)

\* the configuration a document stands for: DefaultConfig overwritten by the
\* keys the document has
DocumentConfig(doc) ==
    [ContentDefaults |->
        [Strategy |-> IF Len(doc.Strategy) = 1 THEN doc.Strategy[1]
                      ELSE "first_lines",
         Lines |-> IF Len(doc.Lines) = 1 THEN doc.Lines[1] ELSE DefaultLines],
     Patterns |-> doc.Patterns]

\* the stated conditions on one rule
StatedRuleOk(r) ==
    /\ r.Name # ""
    /\ r.Filename # <<>> \/ r.Content # <<>>
    /\ r.Context # <<>> \/ r.DiffContext # <<>>
    /\ r.ContentStrategy \in {"", "first_lines", "full_file", "smart"}
    /\ r.ContentStrategy = "smart" => Len(r.ContentLines) = 3

\* the stated conditions on a configuration
StatedConfigOk(cfg) ==
    /\ cfg.ContentDefaults.Strategy \in {"first_lines", "full_file", "smart"}
    /\ \A k \in 1..Len(cfg.Patterns) : StatedRuleOk(cfg.Patterns[k])

LoadCall == call.op \in {"LoadFromString", "LoadFile"}

\* the document of the call was read and parsed as YAML
DocumentParsed ==
    /\ call.doc.yamlOk
    /\ call.op = "LoadFile" => call.read

IsSkipRule(r) ==
    /\ r.Name # "" /\ r.Filename # <<>> /\ r.Content = <<>>
    /\ r.ContentStrategy = "" /\ r.Context = <<>> /\ r.DiffContext = <<>>
    /\ r.Stop

\* C23: a "skip" rule written as documented (a filename pattern,
\* `context: []`, no diff_context, `stop: true`) is accepted when the
\* configuration is loaded
C23_SkipRuleAccepted ==
    (/\ LoadCall
     /\ DocumentParsed
     /\ DocumentConfig(call.doc).ContentDefaults.Strategy \in ValidStrategies
     /\ \A k \in 1..Len(call.doc.Patterns) :
            StatedRuleOk(call.doc.Patterns[k]) \/ IsSkipRule(call.doc.Patterns[k]))
        => call.err = NoErr /\ call.cfg = DocumentConfig(call.doc)

====
